---------------------------- MODULE Spec2Model ----------------------------
(***************************************************************************)
(* Model of neurokernel/plsel.py: the path-like selector compiler          *)
(* (PathLikeSelector) and the port mapper (PortMapper).                    *)
(*                                                                         *)
(* Python values are tagged records [t |-> type, v |-> value], because     *)
(* the code dispatches on type(token).  A selector string is represented   *)
(* by the token stream the lexer produces for it; the token values are     *)
(* computed by the t_* rules below.                                        *)
(***************************************************************************)
EXTENDS Integers, Sequences, FiniteSets, TLC

(***************************************************************************)
(* Bounds of the model.                                                    *)
(***************************************************************************)
\* largest buffer length handed to the PortMapper constructor
MaxBuf == 4
\* longest token stream handed to the parser
MaxTokens == 3
\* the largest step bound of a module's run, and the longest input queue
MaxSteps == 3
MaxQueue == 2

(***************************************************************************)
(* Python values.                                                          *)
(***************************************************************************)
PyInt(n) == [t |-> "int", v |-> n]
PyStr(s) == [t |-> "str", v |-> s]
PyList(s) == [t |-> "list", v |-> s]
PyTuple(a, b) == [t |-> "tuple", v |-> <<a, b>>]
\* np.inf
PyInf == [t |-> "float", v |-> "inf"]
\* None
PyNone == [t |-> "NoneType", v |-> "None"]

\* results of calls that may raise: err = "" means a normal return
Ok(x) == [err |-> "", v |-> x]
Raise(e) == [err |-> e, v |-> <<>>]

\* the exceptions of the code, named after the place that raises them
SyntaxError == "SyntaxError"
ZipMismatch == "ZipMismatch"
TypeError == "TypeError"
AmbiguousSelector == "AmbiguousSelector"
NotMultiIndex == "NotMultiIndex"
UnequalDepth == "UnequalDepth"
LengthMismatch == "LengthMismatch"
TooManyLevels == "TooManyLevels"
IndexError == "IndexError"

(***************************************************************************)
(* Sequence helpers.                                                       *)
(***************************************************************************)
RECURSIVE Flatten(_)
Flatten(ss) == IF ss = <<>> THEN <<>> ELSE Head(ss) \o Flatten(Tail(ss))

RECURSIVE SelectIdx(_, _, _)
\* the indices i in k..Len(s) with s[i] in the set keep, ascending
SelectIdx(s, keep, k) ==
    IF k > Len(s) THEN <<>>
    ELSE IF s[k] \in keep THEN <<k>> \o SelectIdx(s, keep, k + 1)
    ELSE SelectIdx(s, keep, k + 1)

\* range(a, b) as a list of Python ints
range(a, b) == [i \in 1..(IF b > a THEN b - a ELSE 0) |-> PyInt(a + i - 1)]

RECURSIVE int(_)
\* int() of a string of decimal digits, given as a sequence of digits
int(digits) ==
    IF Len(digits) = 1 THEN digits[1]
    ELSE 10 * int(SubSeq(digits, 1, Len(digits) - 1)) + digits[Len(digits)]

RECURSIVE product(_)
\* itertools.product(*lists): the last list varies fastest
product(lists) ==
    IF lists = <<>> THEN << <<>> >>
    ELSE LET rest == product(Tail(lists))
         IN Flatten([i \in 1..Len(Head(lists)) |->
                [j \in 1..Len(rest) |-> <<Head(lists)[i]>> \o rest[j]]])

(***************************************************************************)
(* Lexer: the value each token rule computes.  The text of an integer is   *)
(* a sequence of digits, the text of an interval bound is a sequence of    *)
(* digits or the empty sequence.                                           *)
(***************************************************************************)
_parse_interval_str(start, stop) ==
    PyTuple(IF start = <<>> THEN 0 ELSE int(start),
            IF stop = <<>> THEN PyInf ELSE PyInt(int(stop)))

Tok(type, value) == [type |-> type, value |-> value]
t_PLUS == Tok("PLUS", PyStr("+"))
t_DOTPLUS == Tok("DOTPLUS", PyStr(".+"))
t_COMMA == Tok("COMMA", PyStr(","))
t_LPAREN == Tok("LPAREN", PyStr("("))
t_RPAREN == Tok("RPAREN", PyStr(")"))
t_ASTERISK == Tok("ASTERISK", PyStr("*"))
t_INTEGER(digits) == Tok("INTEGER", PyInt(int(digits)))
t_INTEGER_SET(ds) == Tok("INTEGER_SET", PyList([i \in 1..Len(ds) |-> PyInt(int(ds[i]))]))
t_INTERVAL(start, stop) == Tok("INTERVAL", _parse_interval_str(start, stop))
t_STRING(s) == Tok("STRING", PyStr(s))
t_STRING_SET(ss) == Tok("STRING_SET", PyList([i \in 1..Len(ss) |-> PyStr(ss[i])]))

LevelTokens == {"ASTERISK", "INTEGER", "INTEGER_SET", "INTERVAL", "STRING", "STRING_SET"}
OperatorTokens == {"COMMA", "PLUS", "DOTPLUS"}

(***************************************************************************)
(* Grammar actions.  A selector is a list of lists of levels.              *)
(***************************************************************************)
p_selector_paren_selector(p2) == Ok(p2)

p_selector_comma_selector(p1, p3) == Ok(p1 \o p3)

\* '+' listing the branches with the right operand varying slowest
p_selector_plus_selector_rightmajor(p1, p3) ==
    Ok(Flatten([j \in 1..Len(p3) |-> [i \in 1..Len(p1) |-> p1[i] \o p3[j]]]))

p_selector_plus_selector(p1, p3) ==
    Ok(Flatten([i \in 1..Len(p1) |-> [j \in 1..Len(p3) |-> p1[i] \o p3[j]]]))

\* one level of an operand of '.+': scalars are wrapped, ranges expanded
ExpandLevel(level) ==
    IF level.t \in {"int", "str"} THEN <<level>>
    ELSE IF level.t = "tuple" THEN range(level.v[1], level.v[2].v)
    ELSE level.v

\* range() of an interval without upper bound raises
CanExpand(p) ==
    \A i \in 1..Len(p) : \A j \in 1..Len(p[i]) :
        p[i][j].t = "tuple" => p[i][j].v[2].t = "int"

\* [list(x) for y in p for x in itertools.product(*y)]
ExpandIds(p) ==
    Flatten([i \in 1..Len(p) |->
        product([j \in 1..Len(p[i]) |-> ExpandLevel(p[i][j])])])

\* ZipIds without the assertion: zip() stops at the shorter list
ZipIds_truncate(ids_1, ids_3) ==
    Ok([i \in 1..(IF Len(ids_1) < Len(ids_3) THEN Len(ids_1) ELSE Len(ids_3)) |->
           ids_1[i] \o ids_3[i]])

\* zip(ids_1, ids_3) after the length assertion
ZipIds(ids_1, ids_3) ==
    IF Len(ids_1) # Len(ids_3) THEN Raise(ZipMismatch)
    ELSE Ok([i \in 1..Len(ids_1) |-> ids_1[i] \o ids_3[i]])

\* '.+' combining every identifier of one operand with every one of the other
p_selector_dotplus_selector_product(p1, p3) ==
    IF ~CanExpand(p1) \/ ~CanExpand(p3) THEN Raise(TypeError)
    ELSE p_selector_plus_selector(ExpandIds(p1), ExpandIds(p3))

p_selector_dotplus_selector(p1, p3) ==
    IF ~CanExpand(p1) \/ ~CanExpand(p3) THEN Raise(TypeError)
    ELSE ZipIds(ExpandIds(p1), ExpandIds(p3))

p_selector_selector_plus_level(p1, p3) == Ok([i \in 1..Len(p1) |-> Append(p1[i], p3)])

p_selector_selector_level(p1, p2) == Ok([i \in 1..Len(p1) |-> Append(p1[i], p2)])

p_selector_level(p1) == Ok(<< <<p1>> >>)

p_level(p1) == p1.value

(***************************************************************************)
(* The parser yacc builds from the grammar.  The grammar declares no       *)
(* precedence, so every shift/reduce conflict is resolved as a shift, and  *)
(* the reduce/reduce conflict between 'selector PLUS level' and 'level'    *)
(* in favour of the rule defined first.  The parse stack holds grammar     *)
(* symbols with their values.                                              *)
(***************************************************************************)
Sym(s, v) == [s |-> s, v |-> v]

\* the binary rule selected by the operator on the stack
BinaryRule(op, p1, p3) ==
    CASE op = "COMMA" -> p_selector_comma_selector(p1, p3)
      [] op = "PLUS" -> p_selector_plus_selector(p1, p3)
      [] op = "DOTPLUS" -> p_selector_dotplus_selector(p1, p3)

RECURSIVE ReduceBinary(_)
\* reductions forced by ')' or the end of input: pending binary rules are
\* reduced from the top of the stack downwards
ReduceBinary(stack) ==
    LET n == Len(stack)
    IN IF n >= 3 /\ stack[n - 1].s \in OperatorTokens
       THEN LET r == BinaryRule(stack[n - 1].s, stack[n - 2].v, stack[n].v)
            IN IF r.err # "" THEN [err |-> r.err, stack |-> stack]
               ELSE ReduceBinary(Append(SubSeq(stack, 1, n - 3), Sym("selector", r.v)))
       ELSE [err |-> "", stack |-> stack]

RECURSIVE lr_parse(_, _)
lr_parse(stack, toks) ==
    LET n == Len(stack)
        top == IF n = 0 THEN "$start" ELSE stack[n].s
    IN IF toks = <<>>
       THEN IF top # "selector" THEN Raise(SyntaxError)
            ELSE LET r == ReduceBinary(stack)
                 IN IF r.err # "" THEN Raise(r.err)
                    ELSE IF Len(r.stack) = 1 THEN Ok(r.stack[1].v)
                    ELSE Raise(SyntaxError)
       ELSE LET tok == Head(toks)
                rest == Tail(toks)
            IN CASE tok.type \in LevelTokens ->
                      IF top = "selector"
                      THEN lr_parse(Append(SubSeq(stack, 1, n - 1),
                               Sym("selector", p_selector_selector_level(stack[n].v, p_level(tok)).v)), rest)
                      ELSE IF top = "PLUS"
                      THEN lr_parse(Append(SubSeq(stack, 1, n - 2),
                               Sym("selector", p_selector_selector_plus_level(stack[n - 1].v, p_level(tok)).v)), rest)
                      ELSE lr_parse(Append(stack, Sym("selector", p_selector_level(p_level(tok)).v)), rest)
                 [] tok.type = "LPAREN" ->
                      IF top = "selector" THEN Raise(SyntaxError)
                      ELSE lr_parse(Append(stack, Sym("LPAREN", <<>>)), rest)
                 [] tok.type \in OperatorTokens ->
                      IF top # "selector" THEN Raise(SyntaxError)
                      ELSE lr_parse(Append(stack, Sym(tok.type, <<>>)), rest)
                 [] tok.type = "RPAREN" ->
                      IF top # "selector" THEN Raise(SyntaxError)
                      ELSE LET r == ReduceBinary(stack)
                               m == Len(r.stack)
                           IN IF r.err # "" THEN Raise(r.err)
                              ELSE IF m < 2 \/ r.stack[m - 1].s # "LPAREN" THEN Raise(SyntaxError)
                              ELSE lr_parse(Append(SubSeq(r.stack, 1, m - 2),
                                       Sym("selector", p_selector_paren_selector(r.stack[m].v).v)), rest)

(***************************************************************************)
(* The selector strings of the model and the token stream the lexer yields *)
(* for each of them.                                                       *)
(***************************************************************************)
foo == t_STRING("foo")
bar == t_STRING("bar")
baz == t_STRING("baz")
qux == t_STRING("qux")
mof == t_STRING("mof")
Num(n) == t_INTEGER(<<n>>)
Ival(a, b) == t_INTERVAL(<<a>>, <<b>>)

Lexicon ==
    [s \in {"/foo/bar[0:2],/foo/baz[0:2]", "/foo[0:2]", "/bar[0:2]", "/foo[1:3]",
            "/foo[0],/foo[1],/bar[0]", "/foo[0,0]", "/foo[1],/foo[0:2]", "/foo/*",
            "/foo[0:]", "/foo", "/foo[0:2],/foo/bar[0]", "/foo/bar[0]",
            "/[foo,bar].+/[0:2]", "(/foo,/bar)+/baz", "/foo,", "/foo/*[0:2]",
            "/foo/bar[0:2]", "/foo/baz[0],/foo/bar[0]", "/*[1:]",
            "/qux[0],/qux[1],/qux[2]", "/qux", "/*[0],/*[1],/*[2]",
            "/foo/bar[0]/0", "/foo[1,0]", "/[bar,baz].+/[qux,mof].+/[0,0]",
            "/[foo,bar].+/[0:3]", "/[foo,bar][0:2].+/[0:2][1,0]",
            "(/foo,/bar[0:2]).+/[0:3]",
            "/foo+/bar",
            "/foo/bar",
            "(/foo,/bar)+(/baz,/qux)",
            "(/foo,/bar[0:2])+/baz[0,0]",
            "/foo/mof[0:3]",
            "/foo/mof[1:]",
            "/foo/mof[:2]",
            "/foo/mof[:]",
            "/[foo,bar]/baz[1,0]",
            "/foo.+/bar,/baz",
            "/foo+(/bar,/qux),/baz",
            "/foo+/bar,/baz",
            "/foo,/bar+/baz",
            "/foo,/bar.+/baz"} |->
        CASE s = "/foo/bar[0:2],/foo/baz[0:2]" ->
                 <<foo, bar, Ival(0, 2), t_COMMA, foo, baz, Ival(0, 2)>>
          [] s = "/foo[0:2]" -> <<foo, Ival(0, 2)>>
          [] s = "/bar[0:2]" -> <<bar, Ival(0, 2)>>
          [] s = "/foo[1:3]" -> <<foo, Ival(1, 3)>>
          [] s = "/foo[0],/foo[1],/bar[0]" ->
                 <<foo, Num(0), t_COMMA, foo, Num(1), t_COMMA, bar, Num(0)>>
          [] s = "/foo[0,0]" -> <<foo, t_INTEGER_SET(<< <<0>>, <<0>> >>)>>
          [] s = "/foo[1],/foo[0:2]" -> <<foo, Num(1), t_COMMA, foo, Ival(0, 2)>>
          [] s = "/foo/*" -> <<foo, t_ASTERISK>>
          [] s = "/foo[0:]" -> <<foo, t_INTERVAL(<<0>>, <<>>)>>
          [] s = "/foo" -> <<foo>>
          [] s = "/foo[0:2],/foo/bar[0]" -> <<foo, Ival(0, 2), t_COMMA, foo, bar, Num(0)>>
          [] s = "/foo/bar[0]" -> <<foo, bar, Num(0)>>
          [] s = "/[foo,bar].+/[0:2]" ->
                 <<t_STRING_SET(<<"foo", "bar">>), t_DOTPLUS, Ival(0, 2)>>
          [] s = "(/foo,/bar)+/baz" -> <<t_LPAREN, foo, t_COMMA, bar, t_RPAREN, t_PLUS, baz>>
          [] s = "/foo," -> <<foo, t_COMMA>>
          [] s = "/foo/*[0:2]" -> <<foo, t_ASTERISK, Ival(0, 2)>>
          [] s = "/foo/bar[0:2]" -> <<foo, bar, Ival(0, 2)>>
          [] s = "/foo/baz[0],/foo/bar[0]" ->
                 <<foo, baz, Num(0), t_COMMA, foo, bar, Num(0)>>
          [] s = "/*[1:]" -> <<t_ASTERISK, t_INTERVAL(<<1>>, <<>>)>>
          [] s = "/qux[0],/qux[1],/qux[2]" ->
                 <<qux, Num(0), t_COMMA, qux, Num(1), t_COMMA, qux, Num(2)>>
          [] s = "/qux" -> <<qux>>
          [] s = "/*[0],/*[1],/*[2]" ->
                 <<t_ASTERISK, Num(0), t_COMMA, t_ASTERISK, Num(1), t_COMMA, t_ASTERISK, Num(2)>>
          [] s = "/foo/bar[0]/0" -> <<foo, bar, Num(0), Num(0)>>
          [] s = "/foo[1,0]" -> <<foo, t_INTEGER_SET(<< <<1>>, <<0>> >>)>>
          [] s = "/[bar,baz].+/[qux,mof].+/[0,0]" ->
                 <<t_STRING_SET(<<"bar", "baz">>), t_DOTPLUS, t_STRING_SET(<<"qux", "mof">>),
                   t_DOTPLUS, t_INTEGER_SET(<< <<0>>, <<0>> >>)>>
          [] s = "/[foo,bar].+/[0:3]" ->
                 <<t_STRING_SET(<<"foo", "bar">>), t_DOTPLUS, Ival(0, 3)>>
          [] s = "/[foo,bar][0:2].+/[0:2][1,0]" ->
                 <<t_STRING_SET(<<"foo", "bar">>), Ival(0, 2), t_DOTPLUS, Ival(0, 2),
                   t_INTEGER_SET(<< <<1>>, <<0>> >>)>>
          [] s = "(/foo,/bar[0:2]).+/[0:3]" ->
                 <<t_LPAREN, foo, t_COMMA, bar, Ival(0, 2), t_RPAREN, t_DOTPLUS, Ival(0, 3)>>
          [] s = "/foo+/bar" ->
                 <<foo, t_PLUS, bar>>
          [] s = "/foo/bar" ->
                 <<foo, bar>>
          [] s = "(/foo,/bar)+(/baz,/qux)" ->
                 <<t_LPAREN, foo, t_COMMA, bar, t_RPAREN, t_PLUS, t_LPAREN, baz, t_COMMA, qux, t_RPAREN>>
          [] s = "(/foo,/bar[0:2])+/baz[0,0]" ->
                 <<t_LPAREN, foo, t_COMMA, bar, Ival(0, 2), t_RPAREN, t_PLUS, baz, t_INTEGER_SET(<< <<0>>, <<0>> >>)>>
          [] s = "/foo/mof[0:3]" ->
                 <<foo, mof, Ival(0, 3)>>
          [] s = "/foo/mof[1:]" ->
                 <<foo, mof, t_INTERVAL(<<1>>, <<>>)>>
          [] s = "/foo/mof[:2]" ->
                 <<foo, mof, t_INTERVAL(<<>>, <<2>>)>>
          [] s = "/foo/mof[:]" ->
                 <<foo, mof, t_INTERVAL(<<>>, <<>>)>>
          [] s = "/[foo,bar]/baz[1,0]" ->
                 <<t_STRING_SET(<<"foo", "bar">>), baz, t_INTEGER_SET(<< <<1>>, <<0>> >>)>>
          [] s = "/foo.+/bar,/baz" ->
                 <<foo, t_DOTPLUS, bar, t_COMMA, baz>>
          [] s = "/foo+(/bar,/qux),/baz" ->
                 <<foo, t_PLUS, t_LPAREN, bar, t_COMMA, qux, t_RPAREN, t_COMMA, baz>>
          [] s = "/foo+/bar,/baz" ->
                 <<foo, t_PLUS, bar, t_COMMA, baz>>
          [] s = "/foo,/bar+/baz" ->
                 <<foo, t_COMMA, bar, t_PLUS, baz>>
          [] s = "/foo,/bar.+/baz" ->
                 <<foo, t_COMMA, bar, t_DOTPLUS, baz>>]

\* PathLikeSelector.tokenize
tokenize(selector) == Lexicon[selector]

\* the parse of every selector string of the model, computed once
ParseTable == [s \in DOMAIN Lexicon |-> lr_parse(<<>>, tokenize(s))]

\* PathLikeSelector.parse
parse(selector) == ParseTable[selector]


(***************************************************************************)
(* Evaluator.  A row is a tuple of labels (Python ints and strs).          *)
(***************************************************************************)
Min(a, b) == IF a < b THEN a ELSE b

\* s[:stop]: the slice taken from the first element whatever start is
Slice_from_first(s, start, stop) ==
    SubSeq(s, 1, IF stop.t = "NoneType" THEN Len(s) ELSE Min(stop.v, Len(s)))

\* s[start:stop] for non-negative or absent bounds
Slice(s, start, stop) ==
    LET lo == IF start.t = "NoneType" THEN 0 ELSE Min(start.v, Len(s))
        hi == IF stop.t = "NoneType" THEN Len(s) ELSE Min(stop.v, Len(s))
    IN SubSeq(s, lo + 1, hi)

\* x == y for two scalars
PyEq(x, y) == x.t = y.t /\ x.v = y.v

\* x >= n and x < b as Python 2 orders them: a str is greater than any number
PyGe(x, n) == IF x.t = "int" THEN x.v >= n ELSE TRUE
\* x <= b: an interval closed at its upper end
PyLt_closed(x, b) == IF x.t = "int" THEN (b.t = "float" \/ x.v <= b.v) ELSE FALSE

PyLt(x, b) == IF x.t = "int" THEN (b.t = "float" \/ x.v < b.v) ELSE FALSE

\* the condition under which the token loop breaks at a token other than '*'
TokenBreaks(token, x) ==
    CASE token.t \in {"int", "str"} -> ~PyEq(x, token)
      [] token.t = "list" -> \A k \in 1..Len(token.v) : ~PyEq(x, token.v[k])
      [] token.t = "tuple" -> ~(PyGe(x, token.v[1]) /\ PyLt(x, token.v[2]))

RECURSIVE TestTokenList(_, _, _)
\* the inner loop over one token list: "else" (ran to completion), "break",
\* or the IndexError raised by row_sub[i]
TestTokenList(row_sub, token_list, i) ==
    IF i > Len(token_list) THEN "else"
    ELSE IF PyEq(token_list[i], PyStr("*")) THEN TestTokenList(row_sub, token_list, i + 1)
    ELSE IF i > Len(row_sub) THEN IndexError
    ELSE IF TokenBreaks(token_list[i], row_sub[i]) THEN "break"
    ELSE TestTokenList(row_sub, token_list, i + 1)

RECURSIVE TestParseList(_, _, _)
TestParseList(row_sub, parse_list, k) ==
    IF k > Len(parse_list) THEN Ok(FALSE)
    ELSE LET r == TestTokenList(row_sub, parse_list[k], 1)
         IN IF r = "else" THEN Ok(TRUE)
            ELSE IF r = IndexError THEN Raise(IndexError)
            ELSE TestParseList(row_sub, parse_list, k + 1)

\* a test that accepts no row when a token list is shorter than the row
_select_test_exact(row, parse_list, start, stop) ==
    IF \E k \in 1..Len(parse_list) : Len(parse_list[k]) < Len(Slice(row, start, stop))
    THEN Ok(FALSE)
    ELSE TestParseList(Slice(row, start, stop), parse_list, 1)

_select_test(row, parse_list, start, stop) ==
    TestParseList(Slice(row, start, stop), parse_list, 1)

(***************************************************************************)
(* pandas objects.  A MultiIndex is its number of levels and its rows, a   *)
(* Series an index and a value per row.                                    *)
(***************************************************************************)
MultiIndex(nlevels, rows) == [nlevels |-> nlevels, rows |-> rows]
Series(index, values) == [index |-> index, values |-> values]
NoSeries == Series(MultiIndex(0, <<>>), <<>>)

\* MultiIndex.from_product
from_product(list_list) == MultiIndex(Len(list_list), product(list_list))

\* MultiIndex.append with the rows of the right index put first
MultiIndex_append_front(a, b) == MultiIndex(a.nlevels, b.rows \o a.rows)

\* MultiIndex.append: an index with at least as many levels as the left one
\* gives its labels at the levels of the left one; with a shallower index
\* the tuples of both are put together in an index of one level of tuples.
\* Neither case raises.
MultiIndex_append(a, b) ==
    IF b.nlevels >= a.nlevels
    THEN MultiIndex(a.nlevels,
             a.rows \o [k \in 1..Len(b.rows) |-> SubSeq(b.rows[k], 1, a.nlevels)])
    ELSE MultiIndex(1, a.rows \o b.rows)

RECURSIVE reduce_append(_)
reduce_append(idx_list) ==
    IF Len(idx_list) = 1 THEN idx_list[1]
    ELSE MultiIndex_append(reduce_append(SubSeq(idx_list, 1, Len(idx_list) - 1)),
                           idx_list[Len(idx_list)])

\* Series.index = idx without the length check
Series_set_index_unchecked(values, idx) == Ok(Series(idx, values))

\* Series.index = idx: the new index must be as long as the values
Series_set_index(values, idx) ==
    IF Len(idx.rows) # Len(values) THEN Raise(LengthMismatch)
    ELSE Ok(Series(idx, values))

RECURSIVE FirstError(_, _)
\* the first exception in a list of results, "" if there is none
FirstError(rs, k) ==
    IF k > Len(rs) THEN ""
    ELSE IF rs[k].err # "" THEN rs[k].err
    ELSE FirstError(rs, k + 1)

\* the rows of a Series at the places keep, in the order of keep
Series_take(df, keep) ==
    Series(MultiIndex(df.index.nlevels, [i \in 1..Len(keep) |-> df.index.rows[keep[i]]]),
           [i \in 1..Len(keep) |-> df.values[keep[i]]])

\* crit called on every label: the first exception, or the places kept
Series_crit(df, rs, keep) ==
    IF FirstError(rs, 1) # "" THEN Raise(FirstError(rs, 1))
    ELSE Ok(Series_take(df, keep))

\* the outcome of crit on every label, in index order
CritResults(df, parse_list, start, stop) ==
    [i \in 1..Len(df.index.rows) |->
        _select_test(df.index.rows[i], parse_list, start, stop)]

\* Series.select collecting the rows branch by branch of the selector
Series_select_by_branch(df, parse_list, start, stop) ==
    Series_crit(df, CritResults(df, parse_list, start, stop),
        Flatten([b \in 1..Len(parse_list) |->
            SelectIdx(CritResults(df, <<parse_list[b]>>, start, stop), {Ok(TRUE)}, 1)]))

\* Series.select(crit): crit is called on the labels in index order, the
\* rows it accepts are kept in index order
Series_select(df, parse_list, start, stop) ==
    Series_crit(df, CritResults(df, parse_list, start, stop),
        SelectIdx(CritResults(df, parse_list, start, stop), {Ok(TRUE)}, 1))

(***************************************************************************)
(* Index Builder and selection.                                            *)
(***************************************************************************)
\* re.search(r'\*', selector): only an ASTERISK token contains '*'
HasAsterisk(selector) ==
    LET toks == tokenize(selector)
    IN \E i \in 1..Len(toks) : toks[i].type = "ASTERISK"

\* re.search(r'\:\]', selector): an interval written without upper bound
HasOpenInterval(selector) ==
    LET toks == tokenize(selector)
    IN \E i \in 1..Len(toks) :
           toks[i].type = "INTERVAL" /\ toks[i].value.v[2].t = "float"

\* the list of one level in make_index
LevelList(token) ==
    IF token.t = "tuple" THEN range(token.v[1], token.v[2].v)
    ELSE IF token.t = "list" THEN token.v
    ELSE <<token>>

\* one index per branch of the parsed selector
IndexList(parse_list) ==
    [k \in 1..Len(parse_list) |->
        from_product([j \in 1..Len(parse_list[k]) |-> LevelList(parse_list[k][j])])]

\* the assertions on the indexes of the branches, then their concatenation
CombineIndexes(idx_list) ==
    IF \E k \in 1..Len(idx_list) : idx_list[k].nlevels = 1 THEN Raise(NotMultiIndex)
    ELSE IF Cardinality({idx_list[k].nlevels : k \in 1..Len(idx_list)}) # 1 THEN Raise(UnequalDepth)
    ELSE Ok(reduce_append(idx_list))

\* make_index after the selector has been parsed
IndexOfParse(pr) ==
    IF pr.err # "" THEN Raise(pr.err) ELSE CombineIndexes(IndexList(pr.v))

make_index(selector) ==
    IF HasAsterisk(selector) \/ HasOpenInterval(selector) THEN Raise(AmbiguousSelector)
    ELSE IndexOfParse(parse(selector))

\* select after the selector has been parsed: the number of token lists is
\* compared with the number of levels of the index
SelectParsed(df, pr, start, stop) ==
    IF pr.err # "" THEN Raise(pr.err)
    ELSE IF Len(pr.v) > Len(Slice([i \in 1..df.index.nlevels |-> i], start, stop))
    THEN Raise(TooManyLevels)
    ELSE Series_select(df, pr.v, start, stop)

select(df, selector, start, stop) == SelectParsed(df, parse(selector), start, stop)

\* max(map(len, parse_list))
max_levels(parse_list) ==
    CHOOSE m \in {Len(parse_list[k]) : k \in 1..Len(parse_list)} :
        \A k \in 1..Len(parse_list) : Len(parse_list[k]) <= m

\* the labels of the rows crit accepted
TuplesOf(r) == IF r.err # "" THEN r ELSE Ok(r.v.index.rows)

\* get_tuples after the selector has been parsed: the longest token list is
\* compared with the number of levels of the index
TuplesParsed(df, pr, start, stop) ==
    IF pr.err # "" THEN Raise(pr.err)
    ELSE IF max_levels(pr.v) > Len(Slice([i \in 1..df.index.nlevels |-> i], start, stop))
    THEN Raise(TooManyLevels)
    ELSE TuplesOf(Series_crit(df, CritResults(df, pr.v, start, stop),
                      SelectIdx(CritResults(df, pr.v, start, stop), {Ok(TRUE)}, 1)))

get_tuples(df, selector, start, stop) == TuplesParsed(df, parse(selector), start, stop)


(***************************************************************************)
(* numpy indexing of a one-dimensional array by a list of positions.       *)
(* Positions count from 0.                                                 *)
(***************************************************************************)
ndarray_getitem(a, positions) ==
    IF \E i \in 1..Len(positions) : positions[i] >= Len(a) THEN Raise(IndexError)
    ELSE Ok([i \in 1..Len(positions) |-> a[positions[i] + 1]])

RECURSIVE Assign(_, _, _, _)
\* element-wise assignment, in order
Assign(a, positions, vals, k) ==
    IF k > Len(positions) THEN a
    ELSE Assign([a EXCEPT ![positions[k] + 1] = vals[k]], positions, vals, k + 1)

\* a[positions] = value writing the first selected element only
ndarray_setitem_first(a, positions, value) ==
    LET n == Len(positions)
    IN IF value.t = "list" /\ Len(value.v) \notin {1, n} THEN Raise(LengthMismatch)
       ELSE IF n = 0 THEN Ok(a)
       ELSE Ok([a EXCEPT ![positions[1] + 1] = IF value.t = "int" THEN value.v ELSE value.v[1]])

\* a[positions] = value repeating or cutting value to the length of the selection
ndarray_setitem_cycle(a, positions, value) ==
    LET n == Len(positions)
        vals == IF value.t = "int" THEN [i \in 1..n |-> value.v]
                ELSE [i \in 1..n |-> value.v[((i - 1) % Len(value.v)) + 1]]
    IN IF value.t = "list" /\ Len(value.v) = 0 THEN Ok(a)
       ELSE Ok(Assign(a, positions, vals, 1))

\* a[positions] = value: value is broadcast to the shape of the selection
ndarray_setitem(a, positions, value) ==
    LET n == Len(positions)
        vals == IF value.t = "int" THEN [i \in 1..n |-> value.v]
                ELSE IF Len(value.v) = 1 THEN [i \in 1..n |-> value.v[1]]
                ELSE value.v
    IN IF value.t = "list" /\ Len(value.v) \notin {1, n} THEN Raise(LengthMismatch)
       ELSE IF \E i \in 1..n : positions[i] >= Len(a) THEN Raise(IndexError)
       ELSE Ok(Assign(a, positions, vals, 1))

(***************************************************************************)
(* State: one PortMapper and the array it maps.                            *)
(***************************************************************************)
VARIABLES
    made,       \* a PortMapper has been constructed
    data,       \* PortMapper.data
    portmap,    \* PortMapper.portmap
    last,       \* the last call: its arguments and its outcome
    hist,       \* history: the constructor's arguments, and the scalar written
                \* by set(sel, v) when the last call is the get(sel) after it
    mod,        \* the Module objects, by id
    man,        \* the Manager: its modules and its routing table
    proc        \* the position of each module's process in Module.run

vars == <<made, data, portmap, last, hist, mod, man, proc>>

\* the mapper under test and the network of modules
pmvars == <<made, data, portmap, hist>>
netvars == <<mod, man, proc>>

Call(op, sel, arg, buf, err, result, positions) ==
    [op |-> op, sel |-> sel, arg |-> arg, buf |-> buf, err |-> err,
     result |-> result, positions |-> positions]

NoCall == Call("", <<>>, PyNone, <<>>, "", <<>>, <<>>)

History(selectors, idx, written) ==
    [selectors |-> selectors, idx |-> idx, written |-> written]

\* the selectors argument of the constructor: a string or a list of strings
BuildSelectors ==
    {PyStr(x) : x \in {"/foo/bar[0:2],/foo/baz[0:2]", "/foo[0:2]", "/foo[0],/foo[1],/bar[0]",
                       "/foo[0,0]", "/foo[1],/foo[0:2]", "/foo/*", "/foo[0:]", "/foo",
                       "/foo[0:2],/foo/bar[0]", "/[foo,bar].+/[0:2]", "(/foo,/bar)+/baz",
                       "/foo,", "/foo/*[0:2]", "/foo/mof[0:3]",
                       "/[foo,bar]/baz[1,0]"}}
    \cup {PyList(x) : x \in {<<"/foo[0:2]", "/bar[0:2]">>, <<"/foo[0:2]", "/foo[0:2]">>,
                             <<"/foo[0:2]", "/foo[1:3]">>, <<"/foo[0:2]", "/foo/*">>,
                             <<"/foo[0:2]", "/foo/bar[0]">>}}

\* the selector argument of get
QuerySelectors ==
    {"/foo/bar[0:2],/foo/baz[0:2]", "/foo[0:2]", "/foo[0],/foo[1],/bar[0]",
     "/[foo,bar].+/[0:2]", "(/foo,/bar)+/baz", "/foo/*[0:2]", "/foo/bar[0:2]",
     "/foo/baz[0],/foo/bar[0]", "/foo", "/foo/*", "/*[1:]", "/qux[0],/qux[1],/qux[2]",
     "/qux", "/*[0],/*[1],/*[2]", "/foo/bar[0]/0", "/foo[1,0]", "/foo,",
     "/foo/mof[1:]", "/foo/mof[:2]", "/foo/mof[:]"}

\* the selector argument of set
WriteSelectors ==
    {"/foo/*[0:2]", "/foo/bar[0:2]", "/foo/baz[0],/foo/bar[0]", "/foo[0:2]", "/foo",
     "/*[1:]", "/qux", "/*[0],/*[1],/*[2]", "/foo[1,0]"}

\* buffer elements: two values are enough, no operation branches on them
Values == {0, 1}

\* np.zeros(n) and np.arange(n)
zeros(n) == [i \in 1..n |-> 0]
arange(n) == [i \in 1..n |-> i - 1]

\* arrays of at most MaxBuf elements
Buffers == UNION {{zeros(n), arange(n)} : n \in 0..MaxBuf}

\* the idx argument of the constructor: None, a window of the array's
\* positions, or all of its positions downwards
IdxChoices(n) ==
    {PyNone}
    \cup {PyList([i \in 1..(b - a + 1) |-> a + i - 1]) : a \in 0..(n - 1), b \in 0..(n - 1)}
    \cup {PyList([i \in 1..n |-> n - i])}

\* the data argument of set: a scalar or an array
SetValues ==
    {PyInt(v) : v \in Values}
    \cup {PyList([i \in 1..n |-> i % 2]) : n \in 0..MaxBuf}

\* the selector, start and stop arguments of get_tuples
TupleSelectors == QuerySelectors \cup {"/bar[0:2]", "/foo/bar", "/foo[0:2]"}
Starts == {PyNone, PyInt(0), PyInt(1)}
Stops == {PyNone, PyInt(1), PyInt(2), PyInt(3)}

\* the token streams handed to the parser: every stream of at most
\* MaxTokens tokens of the alphabet, and the streams of the lexicon
Alphabet ==
    {foo, t_STRING_SET(<<"foo", "bar">>), Num(0), t_INTEGER_SET(<< <<0>>, <<1>> >>),
     Ival(0, 2), Ival(0, 3), t_INTERVAL(<<1>>, <<>>), t_ASTERISK,
     t_COMMA, t_PLUS, t_DOTPLUS, t_LPAREN, t_RPAREN}

TokenStreams ==
    UNION {[1..n -> Alphabet] : n \in 0..MaxTokens} \cup {Lexicon[s] : s \in DOMAIN Lexicon}

(***************************************************************************)
(* PortMapper.                                                             *)
(***************************************************************************)
\* a dict without keys
EmptyDict == [k \in {} |-> 0]

\* no Module has been constructed
NoModules == EmptyDict

\* a Manager after construction: no module added, an empty routing table
BaseManager__init__ == [modules |-> {}, routing_table |-> {}]

Init ==
    /\ made = FALSE
    /\ data = <<>>
    /\ portmap = NoSeries
    /\ last = NoCall
    /\ hist = History(PyNone, PyNone, PyNone)
    /\ mod = NoModules
    /\ man = BaseManager__init__
    /\ proc = EmptyDict

\* the index built from the selectors argument
AppendIndexes(rs) ==
    IF FirstError(rs, 1) # "" THEN Raise(FirstError(rs, 1))
    ELSE Ok(reduce_append([k \in 1..Len(rs) |-> rs[k].v]))

BuildIndex(selectors) ==
    IF selectors.t # "str"
    THEN AppendIndexes([k \in 1..Len(selectors.v) |-> make_index(selectors.v[k])])
    ELSE make_index(selectors.v)

\* the Series of the positions under the index, if the index could be built
BindIndex(values, mi) ==
    IF mi.err # "" THEN mi ELSE Series_set_index(values, mi.v)

\* the positions read or written by a call, if select returned
Positions(s) == IF s.err = "" THEN s.v.values ELSE <<>>

\* PortMapper(d, selectors, idx): the object exists only if no step raises
PortMapper__init__(d, selectors, idx) ==
    /\ ~made
    /\ last = NoCall
    /\ \E r \in {BindIndex(IF idx.t = "NoneType" THEN [i \in 1..Len(d) |-> i - 1] ELSE idx.v,
                            BuildIndex(selectors))} :
       /\ last' = Call("__init__", selectors, idx, d, r.err, <<>>, <<>>)
       /\ hist' = History(selectors, idx, PyNone)
       /\ IF r.err = ""
          THEN made' = TRUE /\ data' = d /\ portmap' = r.v
          ELSE UNCHANGED <<made, data, portmap>>
       /\ UNCHANGED netvars

\* an exception that is not caught ends the run: calls follow only calls
\* that returned
get(selector) ==
    /\ made
    /\ last.err = ""
    /\ \E s \in {select(portmap, selector, PyNone, PyNone)} :
       \E r \in {IF s.err # "" THEN s ELSE ndarray_getitem(data, s.v.values)} :
       /\ last' = Call("get", selector, PyNone, <<>>, r.err, r.v, Positions(s))
       /\ hist' = [hist EXCEPT !.written =
                      IF last.op = "set" /\ last.arg.t = "int" /\ last.sel = selector
                      THEN last.arg ELSE PyNone]
       /\ UNCHANGED <<made, data, portmap>>
       /\ UNCHANGED netvars

set(selector, value) ==
    /\ made
    /\ last.err = ""
    /\ \E s \in {select(portmap, selector, PyNone, PyNone)} :
       \E r \in {IF s.err # "" THEN s ELSE ndarray_setitem(data, s.v.values, value)} :
       /\ last' = Call("set", selector, value, <<>>, r.err, <<>>, Positions(s))
       /\ hist' = [hist EXCEPT !.written = PyNone]
       /\ data' = IF r.err = "" THEN r.v ELSE data
       /\ UNCHANGED <<made, portmap>>
       /\ UNCHANGED netvars

\* PathLikeSelector.get_tuples on the mapper's table
GetTuplesCall(selector, start, stop) ==
    /\ made
    /\ last.err = ""
    /\ \E r \in {get_tuples(portmap, selector, start, stop)} :
       /\ last' = Call("get_tuples", selector, PyList(<<start, stop>>), <<>>, r.err, r.v, <<>>)
       /\ hist' = [hist EXCEPT !.written = PyNone]
       /\ UNCHANGED <<made, data, portmap>>
       /\ UNCHANGED netvars

\* parser.parse on a token stream
ParseTokens(toks) ==
    /\ last = NoCall
    /\ \E r \in {lr_parse(<<>>, toks)} :
       /\ last' = Call("parse", toks, PyNone, <<>>, r.err, r.v, <<>>)
       /\ UNCHANGED <<made, data, portmap, hist>>
       /\ UNCHANGED netvars

(***************************************************************************)
(* Modules, connectivity patterns and the manager (core.py).               *)
(***************************************************************************)
BadInterfaceId == "BadInterfaceId"
Incompatible == "Incompatible"
UnequalMappers == "UnequalMappers"
FanIn == "FanIn"

ModIds == {"m1", "m2", "m3"}
PortTypes == {"gpot", "spike"}

\* d with d[k] = v
DictSet(d, k, v) == [x \in DOMAIN d \cup {k} |-> IF x = k THEN v ELSE d[x]]

\* the mapper core.py builds with PortMapper(selector, data): the table of
\* the selector's ports over the positions 0..len(data)-1, and the array
PortMapper_of(selector, d) ==
    [portmap |-> BindIndex(arange(Len(d)), make_index(selector)).v, data |-> d]

\* PortMapper.equals: the same ports at the same positions, whatever the data
equals(a, b) ==
    /\ a.portmap.index.rows = b.portmap.index.rows
    /\ a.portmap.values = b.portmap.values

\* PortMapper.ports_to_inds: the positions of the ports, in the order given
ports_to_inds(pm, ports) ==
    [k \in 1..Len(ports) |->
        pm.portmap.values[CHOOSE i \in 1..Len(pm.portmap.index.rows) :
                              pm.portmap.index.rows[i] = ports[k]]]

\* a connection of a pattern: from a port of one interface to a port of the
\* other, both of one type
Connection(from_int, from_port, to_int, to_port, type) ==
    [from_int |-> from_int, from_port |-> from_port,
     to_int |-> to_int, to_port |-> to_port, type |-> type]

\* a Pattern: the mappers of its interfaces 0 and 1 and its connections
Pattern(gpot, spike, conn) == [pm |-> [gpot |-> gpot, spike |-> spike], conn |-> conn]

\* Pattern.interface_ids
interface_ids(pat) == {0, 1}

\* Interface.gpot_pm and Interface.spike_pm of a pattern's interface
gpot_pm(pat, i) == pat.pm.gpot[i + 1]
spike_pm(pat, i) == pat.pm.spike[i + 1]

\* Pattern.is_connected: some port of from_int is connected to one of to_int
is_connected(pat, from_int, to_int) ==
    \E c \in pat.conn : c.from_int = from_int /\ c.to_int = to_int

\* the ports of a mapper, in table order, that satisfy a test on connections
ConnectedPorts(pm, conn, from_int, to_int, type, at_source) ==
    LET Wired(port) == \E c \in conn :
            /\ c.from_int = from_int /\ c.to_int = to_int /\ c.type = type
            /\ port = IF at_source THEN c.from_port ELSE c.to_port
    IN SelectSeq(pm.portmap.index.rows, Wired)

\* Pattern.src_idx: the ports of from_int connected to ports of to_int
src_idx(pat, from_int, to_int, type) ==
    ConnectedPorts(pat.pm[type][from_int + 1], pat.conn, from_int, to_int, type, TRUE)

\* Pattern.dest_idx: the ports of to_int connected to ports of from_int
dest_idx(pat, from_int, to_int, type) ==
    ConnectedPorts(pat.pm[type][to_int + 1], pat.conn, from_int, to_int, type, FALSE)

\* the elements of a sequence, as a set
Range(s) == {s[k] : k \in 1..Len(s)}

\* Module.__init__: the attributes of a module whose selectors and arrays
\* pass the assertions
Module__init__(sel_gpot, sel_spike, data_gpot, data_spike) ==
    [data |-> [gpot |-> data_gpot, spike |-> data_spike],
     pm |-> [gpot |-> PortMapper_of(sel_gpot, data_gpot),
             spike |-> PortMapper_of(sel_spike, data_spike)],
     patterns |-> EmptyDict,
     pat_ints |-> EmptyDict,
     _in_data |-> EmptyDict,
     _out_data |-> <<>>,
     _in_port_dict |-> [gpot |-> EmptyDict, spike |-> EmptyDict],
     _in_port_dict_ids |-> [gpot |-> EmptyDict, spike |-> EmptyDict],
     _out_port_dict |-> [gpot |-> EmptyDict, spike |-> EmptyDict],
     _out_port_dict_ids |-> [gpot |-> EmptyDict, spike |-> EmptyDict],
     _out_ids |-> <<>>,
     _in_ids |-> <<>>,
     debug |-> FALSE,
     running |-> FALSE]

\* the ids of the modules, in the order their dicts are walked
ModSeq == <<"m1", "m2", "m3">>

\* BaseModule.in_ids: the modules whose pattern sends to this module
in_ids(md) ==
    LET Sends(p) == /\ p \in DOMAIN md.patterns
                    /\ is_connected(md.patterns[p], md.pat_ints[p][2], md.pat_ints[p][1])
    IN SelectSeq(ModSeq, Sends)

\* BaseModule.out_ids: the modules whose pattern receives from this module
out_ids(md) ==
    LET Receives(p) == /\ p \in DOMAIN md.patterns
                       /\ is_connected(md.patterns[p], md.pat_ints[p][1], md.pat_ints[p][2])
    IN SelectSeq(ModSeq, Receives)

\* the ports of a module that a pattern held for peer p writes to
InPorts(pat, ints, type) == Range(dest_idx(pat, ints[2], ints[1], type))

\* BaseModule.connect: the pattern is kept with the interfaces it joins, this
\* module's first, unless it writes to a port another source already writes to
BaseModule_connect(M, self, m, pat, int_0, int_1) ==
    IF \E type \in PortTypes : \E p \in DOMAIN M[self].patterns \ {m} :
           InPorts(pat, <<int_0, int_1>>, type)
               \cap InPorts(M[self].patterns[p], M[self].pat_ints[p], type) # {}
    THEN Raise(FanIn)
    ELSE Ok([M EXCEPT ![self].patterns = DictSet(@, m, pat),
                      ![self].pat_ints = DictSet(@, m, <<int_0, int_1>>)])

\* the mapper comparisons with the last one left out
MappersEqual_three(M, m_0, m_1, pat, int_0, int_1) ==
    /\ equals(gpot_pm(pat, int_0), M[m_0].pm.gpot)
    /\ equals(spike_pm(pat, int_0), M[m_0].pm.spike)
    /\ equals(gpot_pm(pat, int_1), M[m_1].pm.gpot)

\* the four mapper comparisons of Manager.connect
MappersEqual(M, m_0, m_1, pat, int_0, int_1) ==
    /\ equals(gpot_pm(pat, int_0), M[m_0].pm.gpot)
    /\ equals(spike_pm(pat, int_0), M[m_0].pm.spike)
    /\ equals(gpot_pm(pat, int_1), M[m_1].pm.gpot)
    /\ equals(spike_pm(pat, int_1), M[m_1].pm.spike)

\* the assertions of Manager.connect, in order: the exception of the first
\* that fails, "" if all hold; compat are the two results of is_compatible
connect_asserts(M, m_0, m_1, pat, int_0, int_1, compat) ==
    IF ~(int_0 \in interface_ids(pat) /\ int_1 \in interface_ids(pat)) THEN BadInterfaceId
    ELSE IF ~compat[1] \/ ~compat[2] THEN Incompatible
    ELSE IF ~MappersEqual(M, m_0, m_1, pat, int_0, int_1) THEN UnequalMappers
    ELSE ""

\* the routing table after a connection: the entries are set by the pattern's
\* connectivity between its interfaces 0 and 1
Routes(table, m_0, m_1, pat) ==
    table \cup (IF is_connected(pat, 0, 1) THEN {<<m_0, m_1>>} ELSE {})
          \cup (IF is_connected(pat, 1, 0) THEN {<<m_1, m_0>>} ELSE {})

\* the part of Manager.connect after its assertions: a is the result of
\* m_0.connect, b that of m_1.connect, which is called only if a returned
Connected(m_0, m_1, pat, ints, a, b) ==
    /\ mod' = IF b.err = "" THEN b.v ELSE IF a.err = "" THEN a.v ELSE mod
    /\ man' = [modules |-> man.modules \cup {m_0, m_1},
               routing_table |-> IF b.err = ""
                                 THEN Routes(man.routing_table, m_0, m_1, pat)
                                 ELSE man.routing_table]
    /\ last' = Call("connect", <<m_0, m_1>> \o ints, [t |-> "Pattern", v |-> pat],
                    <<>>, b.err, <<>>, <<>>)

\* Manager.connect(m_0, m_1, pat, int_0, int_1)
Manager_connect(m_0, m_1, pat, int_0, int_1, compat) ==
    /\ last.err = ""
    /\ m_0 \in DOMAIN mod /\ m_1 \in DOMAIN mod
    /\ \E e \in {connect_asserts(mod, m_0, m_1, pat, int_0, int_1, compat)} :
       IF e # ""
       THEN /\ last' = Call("connect", <<m_0, m_1, int_0, int_1>>,
                            [t |-> "Pattern", v |-> pat], <<>>, e, <<>>, <<>>)
            /\ UNCHANGED <<mod, man>>
       ELSE \E a \in {BaseModule_connect(mod, m_0, m_1, pat, int_0, int_1)} :
            \E b \in {IF a.err # "" THEN a
                      ELSE BaseModule_connect(a.v, m_1, m_0, pat, int_1, int_0)} :
                Connected(m_0, m_1, pat, <<int_0, int_1>>, a, b)
    /\ UNCHANGED proc
    /\ UNCHANGED pmvars

\* the input side filled with the ports of the source module
PortDict_src(md, ids, type, sending) ==
    [p \in Range(ids) |->
        src_idx(md.patterns[p], md.pat_ints[p][1], md.pat_ints[p][2], type)]

\* the ports and positions of one type kept for each module of ids, by
\* _init_port_dicts; sending tells the output side from the input side
PortDict(md, ids, type, sending) ==
    [p \in Range(ids) |->
        IF sending
        THEN src_idx(md.patterns[p], md.pat_ints[p][1], md.pat_ints[p][2], type)
        ELSE dest_idx(md.patterns[p], md.pat_ints[p][2], md.pat_ints[p][1], type)]

PortDictIds(md, d, type) == [p \in DOMAIN d |-> ports_to_inds(md.pm[type], d[p])]

\* Module._init_port_dicts
_init_port_dicts(md, outs, ins) ==
    [md EXCEPT
        !._out_ids = outs,
        !._out_port_dict = [type \in PortTypes |-> PortDict(md, outs, type, TRUE)],
        !._out_port_dict_ids =
            [type \in PortTypes |-> PortDictIds(md, PortDict(md, outs, type, TRUE), type)],
        !._in_ids = ins,
        !._in_port_dict = [type \in PortTypes |-> PortDict(md, ins, type, FALSE)],
        !._in_port_dict_ids =
            [type \in PortTypes |-> PortDictIds(md, PortDict(md, ins, type, FALSE), type)]]

\* the process of a module: where it is in Module.run, the steps completed,
\* the step bound, the exception that left run, the exceptions caught and
\* logged, and how often post_run was called and the 'shutdown'
\* acknowledgement sent
Process(pc, curr_steps, max_steps, exc, logged, posts, acks) ==
    [pc |-> pc, curr_steps |-> curr_steps, max_steps |-> max_steps, exc |-> exc,
     logged |-> logged, posts |-> posts, acks |-> acks]

\* a process that has not called run
NotStarted(max_steps) == Process("start", 0, max_steps, "", 0, 0, 0)

\* Module.run up to the step loop: the port dicts, an empty queue for each
\* source, running set
RunPrologue(md) ==
    [md EXCEPT !._in_data = [p \in Range(md._in_ids) |-> <<>>], !.running = TRUE]

Module_run(id) ==
    /\ last.err = ""
    /\ id \in DOMAIN mod
    /\ ~mod[id].running
    /\ \E md \in {_init_port_dicts(mod[id], out_ids(mod[id]), in_ids(mod[id]))} :
         mod' = [mod EXCEPT ![id] = RunPrologue(md)]
    /\ proc' = [proc EXCEPT ![id].pc = "while", ![id].curr_steps = 0]
    /\ last' = Call("run", id, PyNone, <<>>, "", <<>>, <<>>)
    /\ UNCHANGED man
    /\ UNCHANGED pmvars

(***************************************************************************)
(* The phases of a step of Module.run.                                     *)
(***************************************************************************)
\* the outcome of a phase: the exception it raised, "" if it returned, and
\* the module as the phase left it
Phase(err, md) == [err |-> err, md |-> md]

\* the module with the array of one of its mappers replaced
SetData(md, type, a) == [md EXCEPT !.pm[type].data = a]

\* deque.pop: the newest element is taken
popright(q) == [item |-> q[Len(q)], rest |-> SubSeq(q, 1, Len(q) - 1)]

\* deque.popleft: the oldest element is taken
popleft(q) == [item |-> Head(q), rest |-> Tail(q)]

\* pm['spike'].data[data[1]] = 1, r being its outcome
AfterSpikes(md, r) ==
    IF r.err # "" THEN Phase(r.err, md) ELSE Phase("", SetData(md, "spike", r.v))

\* the spike positions of the source are cleared (r), then those received set
AfterZero(md, r, idx) ==
    IF r.err # "" THEN Phase(r.err, md)
    ELSE AfterSpikes(SetData(md, "spike", r.v), ndarray_setitem(r.v, idx, PyInt(1)))

\* the spike positions of the source are not cleared
AfterGpot_no_clear(md, r, in_id, idx) ==
    IF r.err # "" THEN Phase(r.err, md)
    ELSE AfterZero(SetData(md, "gpot", r.v), Ok(md.pm.spike.data), idx)

\* the gpot values have been assigned (r); the spike positions of the source
\* are cleared next
AfterGpot(md, r, in_id, idx) ==
    IF r.err # "" THEN Phase(r.err, md)
    ELSE AfterZero(SetData(md, "gpot", r.v),
                   ndarray_setitem(md.pm.spike.data, md._in_port_dict_ids.spike[in_id],
                                   PyInt(0)),
                   idx)

\* the payload is written at the positions kept for the first source
WritePayload_first_source(md, in_id, payload) ==
    AfterGpot(md,
              ndarray_setitem(md.pm.gpot.data, md._in_port_dict_ids.gpot[md._in_ids[1]],
                              PyList(payload[1])),
              md._in_ids[1], payload[2])

\* the writes of _get_in_data for the payload taken from the queue of in_id
WritePayload(md, in_id, payload) ==
    AfterGpot(md,
              ndarray_setitem(md.pm.gpot.data, md._in_port_dict_ids.gpot[in_id],
                              PyList(payload[1])),
              in_id, payload[2])

\* the payload d has been taken from the queue of in_id and is written
TakePayload(md, in_id, d) ==
    WritePayload([md EXCEPT !._in_data[in_id] = d.rest], in_id, d.item)

RECURSIVE _get_in_data_stop(_, _)
\* the loop over the sources ends at the first source without data
_get_in_data_stop(md, k) ==
    IF k > Len(md._in_ids) THEN Phase("", md)
    ELSE IF md._in_ids[k] \notin DOMAIN md._in_data \/ md._in_data[md._in_ids[k]] = <<>>
    THEN Phase("", md)
    ELSE CHOOSE out \in {IF ph.err # "" THEN ph ELSE _get_in_data_stop(ph.md, k + 1) :
                           ph \in {TakePayload(md, md._in_ids[k],
                                               popleft(md._in_data[md._in_ids[k]]))}} : TRUE

RECURSIVE _get_in_data(_, _)
\* Module._get_in_data from the k-th source on: a source without data is
\* passed over, an exception of the writes ends the loop
_get_in_data(md, k) ==
    IF k > Len(md._in_ids) THEN Phase("", md)
    ELSE IF md._in_ids[k] \notin DOMAIN md._in_data \/ md._in_data[md._in_ids[k]] = <<>>
    THEN _get_in_data(md, k + 1)
    ELSE CHOOSE out \in {IF ph.err # "" THEN ph ELSE _get_in_data(ph.md, k + 1) :
                           ph \in {TakePayload(md, md._in_ids[k],
                                               popleft(md._in_data[md._in_ids[k]]))}} : TRUE

\* PortMapper.get_ports_nonzero: the ports whose data is not zero
get_ports_nonzero(pm) ==
    {pm.portmap.index.rows[i] : i \in {j \in 1..Len(pm.portmap.index.rows) :
                                        pm.data[pm.portmap.values[j] + 1] # 0}}

\* Pattern.dest_idx with source ports given: the ports of to_int connected to
\* one of these ports of from_int
dest_idx_of(pat, from_int, to_int, type, src_ports) ==
    LET Wired(port) == \E c \in pat.conn :
            /\ c.from_int = from_int /\ c.to_int = to_int /\ c.type = type
            /\ c.to_port = port /\ c.from_port \in src_ports
    IN SelectSeq(pat.pm[type][to_int + 1].portmap.index.rows, Wired)

\* the spike indices staged for a destination from all ports wired to it
SpikeIndices_all_wired(md, out_id, pat, ints) ==
    ports_to_inds(spike_pm(pat, ints[2]),
                  dest_idx_of(pat, ints[1], ints[2], "spike",
                              Range(md._out_port_dict.spike[out_id])))

\* the spike indices staged for a destination: the ports wired to it that
\* have emitted a spike, as positions of the destination
SpikeIndices(md, out_id, pat, ints) ==
    ports_to_inds(spike_pm(pat, ints[2]),
                  dest_idx_of(pat, ints[1], ints[2], "spike",
                              Range(md._out_port_dict.spike[out_id])
                                  \cap get_ports_nonzero(md.pm.spike)))

\* the entry staged for a destination
OutEntry(md, out_id) ==
    <<out_id,
      <<ndarray_getitem(md.pm.gpot.data, md._out_port_dict_ids.gpot[out_id]).v,
        SpikeIndices(md, out_id, md.patterns[out_id], md.pat_ints[out_id])>> >>

\* Module._put_out_data
_put_out_data(md) ==
    Phase("", [md EXCEPT !._out_data =
                   [k \in 1..Len(md._out_ids) |-> OutEntry(md, md._out_ids[k])]])

\* the positions of the ports a module sends from
OutPositions(md, type) ==
    UNION {Range(md._out_port_dict_ids[type][p]) : p \in DOMAIN md._out_port_dict_ids[type]}

\* a[i] = v for the positions i of ps
Fill(a, ps, v) == [i \in 1..Len(a) |-> IF i - 1 \in ps THEN v ELSE a[i]]

\* run_step of a derived class: it writes w.gpot and w.spike to the output
\* ports and then raises w.err, if not ""
run_step(md, w) ==
    Phase(w.err,
          [md EXCEPT !.pm.gpot.data = Fill(@, OutPositions(md, "gpot"), w.gpot),
                     !.pm.spike.data = Fill(@, OutPositions(md, "spike"), w.spike)])

\* BaseModule._sync: the payloads that arrived from each source are queued,
\* unless the transport raises
_sync(md, arrived, err) ==
    IF err # "" THEN Phase(err, md)
    ELSE Phase("", [md EXCEPT !._in_data =
                       [p \in DOMAIN md._in_data |-> md._in_data[p] \o arrived[p]]])

\* the selectors of the modules' and the patterns' ports
GpotSelectors == {"/foo[0:2]", "/foo[1,0]"}
SpikePairs == {<<"/bar[0:2]", "/bar[0:2]">>, <<"/foo/bar[0:2]", "/bar[0:2]">>,
               <<"/bar[0:2]", "/foo/bar[0:2]">>}

\* the mappers a pattern's two interfaces can have for pairs of selectors
InterfaceMappers(pairs) ==
    {<<PortMapper_of(x[1], zeros(2)), PortMapper_of(x[2], zeros(2))>> : x \in pairs}

\* the k-th port of interface i in a pair of interface mappers
Port(pms, i, k) == pms[i + 1].portmap.index.rows[k]

\* connectivity: into interface 0 at its first or at its second gpot port,
\* with spikes sent back from its first spike port, or out of interface 0 only
Connections(g, s, c) ==
    CASE c = 1 -> {Connection(1, Port(g, 1, 1), 0, Port(g, 0, 1), "gpot"),
                   Connection(0, Port(s, 0, 1), 1, Port(s, 1, 1), "spike")}
      [] c = 2 -> {Connection(1, Port(g, 1, 2), 0, Port(g, 0, 2), "gpot"),
                   Connection(0, Port(s, 0, 1), 1, Port(s, 1, 1), "spike")}
      [] c = 3 -> {Connection(0, Port(g, 0, 1), 1, Port(g, 1, 1), "gpot")}

Patterns ==
    {Pattern(x[1], x[2], Connections(x[1], x[2], x[3])) :
        x \in InterfaceMappers(GpotSelectors \X GpotSelectors)
               \X InterfaceMappers(SpikePairs) \X (1..3)}

\* the arguments of connect after the modules: a pattern, its interfaces for
\* m_0 and m_1, and the two results of Interface.is_compatible
ConnectArgs ==
    (Patterns \X {<<0, 1>>, <<1, 0>>} \X {<<TRUE, TRUE>>})
    \cup ({Pattern(x[1], x[2], Connections(x[1], x[2], 1)) :
              x \in InterfaceMappers({<<"/foo[0:2]", "/foo[0:2]">>})
                     \X InterfaceMappers({<<"/bar[0:2]", "/bar[0:2]">>})}
          \X {<<0, 1>>, <<0, 2>>} \X {<<TRUE, TRUE>>, <<FALSE, TRUE>>, <<TRUE, FALSE>>})

\* three modules after construction, and a manager
InitConnect ==
    /\ made = FALSE
    /\ data = <<>>
    /\ portmap = NoSeries
    /\ last = NoCall
    /\ hist = History(PyNone, PyNone, PyNone)
    /\ mod = [id \in ModIds |->
                Module__init__(IF id = "m3" THEN "/foo[1,0]" ELSE "/foo[0:2]",
                               "/bar[0:2]", zeros(2), zeros(2))]
    /\ man = BaseManager__init__
    /\ proc = [id \in ModIds |-> NotStarted(MaxSteps)]

\* a module that runs is a process of its own: a connection made afterwards
\* in the manager's process does not reach it; two modules are connected once
ManagerConnect ==
    \E m_0 \in ModIds : \E m_1 \in ModIds \ {m_0} : \E x \in ConnectArgs :
        /\ ~mod[m_0].running /\ ~mod[m_1].running
        /\ m_1 \notin DOMAIN mod[m_0].patterns
        /\ Manager_connect(m_0, m_1, x[1], x[2][1], x[2][2], x[3])

ModuleRun == \E id \in ModIds : Module_run(id)

(***************************************************************************)
(* A network that runs: m1 receives from m2 and m3 and sends to both.      *)
(***************************************************************************)
StepError == "StepError"
TransportError == "TransportError"

RunGpot == "/foo/mof[0:3]"
RunSpike == "/qux[0],/qux[1],/qux[2]"

\* the mappers of a pattern whose two interfaces have the ports of selector
RunMappers(selector) ==
    <<PortMapper_of(selector, zeros(3)), PortMapper_of(selector, zeros(3))>>

\* m1 is interface 0, m2 interface 1: gpot port 0 and spike ports 0 and 1 of
\* m1 receive from m2, gpot port 2 and spike port 2 of m1 send to m2
Connections12(g, s) ==
    {Connection(1, Port(g, 1, 1), 0, Port(g, 0, 1), "gpot"),
     Connection(0, Port(g, 0, 3), 1, Port(g, 1, 3), "gpot"),
     Connection(1, Port(s, 1, 1), 0, Port(s, 0, 1), "spike"),
     Connection(1, Port(s, 1, 2), 0, Port(s, 0, 2), "spike"),
     Connection(0, Port(s, 0, 3), 1, Port(s, 1, 3), "spike")}

\* a pattern of the mappers g and s with the connections conn(g, s)
RunPattern(g, s, conn(_, _)) == Pattern(g, s, conn(g, s))

Pattern12 == RunPattern(RunMappers(RunGpot), RunMappers(RunSpike), Connections12)

\* m1 is interface 0, m3 interface 1: gpot port 1 of m1 receives from m3,
\* spike port 2 of m1 sends to m3
Connections13(g, s) ==
    {Connection(1, Port(g, 1, 2), 0, Port(g, 0, 2), "gpot"),
     Connection(0, Port(s, 0, 3), 1, Port(s, 1, 3), "spike")}

Pattern13 == RunPattern(RunMappers(RunGpot), RunMappers(RunSpike), Connections13)

\* the modules after m_0.connect(m_1, pat, 0, 1) and m_1.connect(m_0, pat, 1, 0)
Linked(M, m_0, m_1, pat) ==
    BaseModule_connect(BaseModule_connect(M, m_0, m_1, pat, 0, 1).v, m_1, m_0, pat, 1, 0).v

\* the modules constructed and connected
RunLinked(debug) ==
    Linked(Linked([id \in ModIds |->
                      [Module__init__(RunGpot, RunSpike, zeros(3), zeros(3))
                           EXCEPT !.debug = debug]],
                  "m1", "m2", Pattern12),
           "m1", "m3", Pattern13)

\* each module at the head of its step loop
AtLoop(M) ==
    [id \in ModIds |-> RunPrologue(_init_port_dicts(M[id], out_ids(M[id]), in_ids(M[id])))]

\* the arrays of a sending module when it stages its output
SenderData ==
    [id \in {"m2", "m3"} |->
        IF id = "m2" THEN {<< <<1, 0, 0>>, <<1, 0, 0>> >>, << <<2, 0, 0>>, <<0, 1, 0>> >>}
        ELSE {<< <<0, 3, 0>>, <<0, 0, 0>> >>}]

\* the payloads src can send to dst: what its _put_out_data stages for dst
Payloads(M, src, dst) ==
    {OutEntry(SetData(SetData(M[src], "gpot", d[1]), "spike", d[2]), dst)[2] :
        d \in SenderData[src]}

\* the sequences of at most n elements of S
SeqsUpTo(S, n) == UNION {[1..k -> S] : k \in 0..n}

\* the payloads the sources of m1 can send to it
RunPayloads == [p \in {"m2", "m3"} |-> Payloads(AtLoop(RunLinked(FALSE)), p, "m1")]

RECURSIVE Arrivals(_, _)
\* what can arrive during one _sync from the first k sources: for each source
\* payloads it can send, as many as its queue has room for
Arrivals(md, k) ==
    IF k = 0 THEN {EmptyDict}
    ELSE {DictSet(f, md._in_ids[k], q) :
             f \in Arrivals(md, k - 1),
             q \in SeqsUpTo(RunPayloads[md._in_ids[k]],
                            MaxQueue - Len(md._in_data[md._in_ids[k]]))}

\* what run_step writes to the output ports, and the exception it raises
StepWrites ==
    {[gpot |-> 5, spike |-> 1, err |-> ""], [gpot |-> 0, spike |-> 0, err |-> ""],
     [gpot |-> 5, spike |-> 1, err |-> StepError]}

\* m1 has called run and is at the head of its step loop
InitRun ==
    /\ made = FALSE
    /\ data = <<>>
    /\ portmap = NoSeries
    /\ hist = History(PyNone, PyNone, PyNone)
    /\ \E debug \in BOOLEAN : mod = AtLoop(RunLinked(debug))
    /\ man = [modules |-> ModIds,
              routing_table |-> Routes(Routes({}, "m1", "m2", Pattern12), "m1", "m3", Pattern13)]
    /\ \E max_steps \in {0, 1, MaxSteps} :
         proc = [id \in ModIds |-> IF id = "m1" THEN Process("while", 0, max_steps, "", 0, 0, 0)
                                   ELSE NotStarted(max_steps)]
    /\ last = Call("run", "m1", PyNone, <<>>, "", <<>>, <<>>)

\* the end of a phase: in debug mode an exception leaves run, otherwise it is
\* caught and logged by catch_exception; the next phase follows
\* a variant that looks at the stop signal after every phase
AfterPhase_preempt(id, op, ph, next) ==
    /\ mod' = [mod EXCEPT ![id] = ph.md]
    /\ proc' = [proc EXCEPT
                   ![id].pc = IF ph.err # "" /\ mod[id].debug THEN "raised"
                              ELSE IF ph.md.running THEN next ELSE "post",
                   ![id].exc = IF ph.err # "" /\ mod[id].debug THEN ph.err ELSE @,
                   ![id].logged = IF ph.err # "" /\ ~mod[id].debug THEN @ + 1 ELSE @]
    /\ last' = Call(op, id, PyNone, <<>>, ph.err, <<>>, <<>>)
    /\ UNCHANGED man
    /\ UNCHANGED pmvars

\* a variant that undoes the writes of a phase that failed
AfterPhase_rollback(id, op, ph, next) ==
    /\ mod' = [mod EXCEPT ![id] = IF ph.err # "" THEN @ ELSE ph.md]
    /\ proc' = [proc EXCEPT
                   ![id].pc = IF ph.err # "" /\ mod[id].debug THEN "raised" ELSE next,
                   ![id].exc = IF ph.err # "" /\ mod[id].debug THEN ph.err ELSE @,
                   ![id].logged = IF ph.err # "" /\ ~mod[id].debug THEN @ + 1 ELSE @]
    /\ last' = Call(op, id, PyNone, <<>>, ph.err, <<>>, <<>>)
    /\ UNCHANGED man
    /\ UNCHANGED pmvars

AfterPhase(id, op, ph, next) ==
    /\ mod' = [mod EXCEPT ![id] = ph.md]
    /\ proc' = [proc EXCEPT
                   ![id].pc = IF ph.err # "" /\ mod[id].debug THEN "raised" ELSE next,
                   ![id].exc = IF ph.err # "" /\ mod[id].debug THEN ph.err ELSE @,
                   ![id].logged = IF ph.err # "" /\ ~mod[id].debug THEN @ + 1 ELSE @]
    /\ last' = Call(op, id, PyNone, <<>>, ph.err, <<>>, <<>>)
    /\ UNCHANGED man
    /\ UNCHANGED pmvars

\* while curr_steps < self.max_steps
WhileTest(id) ==
    /\ proc[id].pc = "while"
    /\ proc' = [proc EXCEPT ![id].pc =
                   IF proc[id].curr_steps < proc[id].max_steps THEN "get" ELSE "post"]
    /\ last' = Call("while", id, PyNone, <<>>, "", <<>>, <<>>)
    /\ UNCHANGED <<mod, man>>
    /\ UNCHANGED pmvars

GetInData(id) ==
    /\ proc[id].pc = "get"
    /\ \E ph \in {_get_in_data(mod[id], 1)} : AfterPhase(id, "_get_in_data", ph, "step")

RunStep(id, w) ==
    /\ proc[id].pc = "step"
    /\ \E ph \in {run_step(mod[id], w)} : AfterPhase(id, "run_step", ph, "put")

PutOutData(id) ==
    /\ proc[id].pc = "put"
    /\ \E ph \in {_put_out_data(mod[id])} : AfterPhase(id, "_put_out_data", ph, "sync")

Sync(id, arrived, err) ==
    /\ proc[id].pc = "sync"
    /\ \E ph \in {_sync(mod[id], arrived, err)} : AfterPhase(id, "_sync", ph, "end")

\* a variant without the break
EndStep_no_break(id) ==
    /\ proc[id].pc = "end"
    /\ proc' = [proc EXCEPT ![id].pc = "while", ![id].curr_steps = @ + 1]
    /\ last' = Call("end", id, PyNone, <<>>, "", <<>>, <<>>)
    /\ UNCHANGED <<mod, man>>
    /\ UNCHANGED pmvars

\* the end of a step: if not self.running: break, else curr_steps += 1
EndStep(id) ==
    /\ proc[id].pc = "end"
    /\ proc' = [proc EXCEPT
                   ![id].pc = IF mod[id].running THEN "while" ELSE "post",
                   ![id].curr_steps = IF mod[id].running THEN @ + 1 ELSE @]
    /\ last' = Call("end", id, PyNone, <<>>, "", <<>>, <<>>)
    /\ UNCHANGED <<mod, man>>
    /\ UNCHANGED pmvars

\* after the loop: post_run, the control stream is shut down and 'shutdown'
\* is sent to the manager
PostRun(id) ==
    /\ proc[id].pc = "post"
    /\ proc' = [proc EXCEPT ![id].pc = "done", ![id].posts = @ + 1, ![id].acks = @ + 1]
    /\ last' = Call("post_run", id, PyNone, <<>>, "", <<>>, <<>>)
    /\ UNCHANGED <<mod, man>>
    /\ UNCHANGED pmvars

\* the control handler receives 'quit' while the loop runs
Quit(id) ==
    /\ proc[id].pc \in {"while", "get", "step", "put", "sync", "end"}
    /\ mod[id].running
    /\ mod' = [mod EXCEPT ![id].running = FALSE]
    /\ UNCHANGED <<man, proc, last>>
    /\ UNCHANGED pmvars

\* the module whose loop is followed
RunIds == {"m1"}

ModuleWhile == \E id \in RunIds : WhileTest(id)
ModuleGet == \E id \in RunIds : GetInData(id)
ModuleStep == \E id \in RunIds : \E w \in StepWrites : RunStep(id, w)
ModulePut == \E id \in RunIds : PutOutData(id)
ModuleSync ==
    \E id \in RunIds :
        /\ proc[id].pc = "sync"
        /\ \E err \in {"", TransportError} :
               \E arrived \in IF err = "" THEN Arrivals(mod[id], Len(mod[id]._in_ids))
                              ELSE {EmptyDict} :
                   Sync(id, arrived, err)
ModuleEnd == \E id \in RunIds : EndStep(id)
ModulePost == \E id \in RunIds : PostRun(id)
ModuleQuit == \E id \in RunIds : Quit(id)

\* construction over any array, with or without idx
Construct ==
    \E d \in Buffers : \E selectors \in BuildSelectors : \E idx \in IdxChoices(Len(d)) :
        PortMapper__init__(d, selectors, idx)

\* construction over an array of zeros from one selector string, without idx
ConstructZeros ==
    \E n \in 0..MaxBuf : \E selectors \in {x \in BuildSelectors : x.t = "str"} :
        PortMapper__init__(zeros(n), selectors, PyNone)

Get == \E selector \in QuerySelectors : get(selector)

Set == \E selector \in WriteSelectors : \E value \in SetValues : set(selector, value)

Parse == \E toks \in TokenStreams : ParseTokens(toks)

GetTuples ==
    \E selector \in TupleSelectors : \E start \in Starts : \E stop \in Stops :
        GetTuplesCall(selector, start, stop)

\* construction and reads
NextRead == Construct \/ Get

SpecRead == Init /\ [][NextRead]_vars

\* construction, writes and reads
NextWrite == ConstructZeros \/ Set \/ Get

SpecWrite == Init /\ [][NextWrite]_vars

\* the selector compiler alone
NextParse == Parse

SpecParse == Init /\ [][NextParse]_vars

\* construction and the evaluator on sub-ranges of levels
NextTuples == ConstructZeros \/ GetTuples

SpecTuples == Init /\ [][NextTuples]_vars

\* the network: connections, and modules entering their step loop
NextConnect == ManagerConnect \/ ModuleRun

SpecConnect == InitConnect /\ [][NextConnect]_vars

\* the step loop of a module, with the transport and the control handler
ModuleLoop ==
    ModuleWhile \/ ModuleGet \/ ModuleStep \/ ModulePut \/ ModuleSync \/ ModuleEnd
        \/ ModulePost

NextRun == ModuleLoop \/ ModuleQuit

SpecRun == InitRun /\ [][NextRun]_vars

\* the loop is a process that is scheduled as long as it can take a step
SpecRunFair == SpecRun /\ WF_vars(ModuleLoop)

\* all operations
Next == Construct \/ Get \/ Set \/ Parse \/ GetTuples \/ ManagerConnect \/ ModuleRun
            \/ ModuleLoop \/ ModuleQuit

Spec == Init /\ [][Next]_vars


(***************************************************************************)
(* What a selector denotes, stated on its own: a row matches a branch when *)
(* every level matcher of the branch accepts the row's label at its        *)
(* position, and a selector when it matches one of its branches.           *)
(***************************************************************************)
Accepts(m, x) ==
    CASE m.t \in {"int", "str"} -> (m.t = "str" /\ m.v = "*") \/ (x.t = m.t /\ x.v = m.v)
      [] m.t = "list" -> \E k \in 1..Len(m.v) : x.t = m.v[k].t /\ x.v = m.v[k].v
      [] m.t = "tuple" -> /\ x.t = "int"
                          /\ m.v[1] <= x.v
                          /\ (m.v[2].t = "float" \/ x.v < m.v[2].v)

BranchMatches(branch, row) ==
    \A i \in 1..Len(branch) : i <= Len(row) /\ Accepts(branch[i], row[i])

\* the rows of the table the selector matches, as row numbers
MatchedRows(selector) ==
    {i \in 1..Len(portmap.index.rows) :
        \E b \in 1..Len(parse(selector).v) :
            BranchMatches(parse(selector).v[b], portmap.index.rows[i])}

RECURSIVE Ascending(_)
\* the elements of a set of numbers in ascending order
Ascending(S) ==
    IF S = {} THEN <<>>
    ELSE LET m == CHOOSE m \in S : \A y \in S : m <= y
         IN <<m>> \o Ascending(S \ {m})

\* the selector parses and none of its branches has more levels than the table
Admissible(selector) ==
    /\ parse(selector).err = ""
    /\ \A b \in 1..Len(parse(selector).v) : Len(parse(selector).v[b]) <= portmap.index.nlevels

\* the selector has a wildcard or an interval without upper bound
Ambiguous(selector) == HasAsterisk(selector) \/ HasOpenInterval(selector)

\* the identifiers of the table are pairwise distinct
DistinctRows ==
    \A i, j \in 1..Len(portmap.index.rows) :
        i # j => portmap.index.rows[i] # portmap.index.rows[j]

(***************************************************************************)
(* What '.+' denotes, stated on the token stream: an operand is a path of  *)
(* level tokens or a parenthesised union of two paths; a path stands for   *)
(* the identifiers obtained by choosing one literal element per level, the *)
(* last level varying fastest.                                             *)
(***************************************************************************)
Elements(tok) ==
    CASE tok.type \in {"INTEGER", "STRING", "ASTERISK"} -> <<tok.value>>
      [] tok.type \in {"INTEGER_SET", "STRING_SET"} -> tok.value.v
      [] tok.type = "INTERVAL" ->
           [k \in 1..(tok.value.v[2].v - tok.value.v[1]) |-> PyInt(tok.value.v[1] + k - 1)]

IsPath(x) ==
    /\ Len(x) >= 1
    /\ \A i \in 1..Len(x) :
          /\ x[i].type \in LevelTokens
          /\ x[i].type = "INTERVAL" =>
                 x[i].value.v[2].t = "int" /\ x[i].value.v[2].v >= x[i].value.v[1]

RECURSIVE Count(_)
Count(path) == IF path = <<>> THEN 1 ELSE Len(Elements(Head(path))) * Count(Tail(path))

\* the n-th identifier of a path, counting from 0
Ident(path, n) ==
    [j \in 1..Len(path) |->
        LET E == Elements(path[j])
        IN E[((n \div Count(SubSeq(path, j + 1, Len(path)))) % Len(E)) + 1]]

PathIds(path) == [n \in 1..Count(path) |-> Ident(path, n - 1)]

UnionAt(x, c) ==
    /\ x[1].type = "LPAREN" /\ x[Len(x)].type = "RPAREN" /\ x[c].type = "COMMA"
    /\ IsPath(SubSeq(x, 2, c - 1)) /\ IsPath(SubSeq(x, c + 1, Len(x) - 1))

IsUnion(x) == Len(x) >= 5 /\ \E c \in 3..(Len(x) - 2) : UnionAt(x, c)

IsOperand(x) == IsPath(x) \/ IsUnion(x)

OperandIds(x) ==
    IF IsPath(x) THEN PathIds(x)
    ELSE LET c == CHOOSE c \in 3..(Len(x) - 2) : UnionAt(x, c)
         IN PathIds(SubSeq(x, 2, c - 1)) \o PathIds(SubSeq(x, c + 1, Len(x) - 1))

ZipAt(toks, k) ==
    /\ toks[k].type = "DOTPLUS"
    /\ IsOperand(SubSeq(toks, 1, k - 1)) /\ IsOperand(SubSeq(toks, k + 1, Len(toks)))

\* the stream is one '.+' between two operands
IsZip(toks) == \E k \in 2..(Len(toks) - 1) : ZipAt(toks, k)

ZipLeft(toks) ==
    OperandIds(SubSeq(toks, 1, (CHOOSE k \in 2..(Len(toks) - 1) : ZipAt(toks, k)) - 1))

ZipRight(toks) ==
    OperandIds(SubSeq(toks, (CHOOSE k \in 2..(Len(toks) - 1) : ZipAt(toks, k)) + 1, Len(toks)))

(***************************************************************************)
(* What '+' denotes, stated on the token stream: a term is a sequence of   *)
(* level tokens, one branch, or a parenthesised union of two such          *)
(* sequences, two branches.                                                *)
(***************************************************************************)
IsLevels(x) == Len(x) >= 1 /\ \A i \in 1..Len(x) : x[i].type \in LevelTokens

LevelsBranch(x) == [j \in 1..Len(x) |-> x[j].value]

GroupAt(x, c) ==
    /\ x[1].type = "LPAREN" /\ x[Len(x)].type = "RPAREN" /\ x[c].type = "COMMA"
    /\ IsLevels(SubSeq(x, 2, c - 1)) /\ IsLevels(SubSeq(x, c + 1, Len(x) - 1))

IsGroup(x) == Len(x) >= 5 /\ \E c \in 3..(Len(x) - 2) : GroupAt(x, c)

IsTerm(x) == IsLevels(x) \/ IsGroup(x)

TermBranches(x) ==
    IF IsLevels(x) THEN <<LevelsBranch(x)>>
    ELSE LET c == CHOOSE c \in 3..(Len(x) - 2) : GroupAt(x, c)
         IN <<LevelsBranch(SubSeq(x, 2, c - 1)), LevelsBranch(SubSeq(x, c + 1, Len(x) - 1))>>

CrossAt(toks, k) ==
    /\ toks[k].type = "PLUS"
    /\ IsTerm(SubSeq(toks, 1, k - 1)) /\ IsTerm(SubSeq(toks, k + 1, Len(toks)))

\* the stream is one '+' between two terms
IsCross(toks) == \E k \in 2..(Len(toks) - 1) : CrossAt(toks, k)

CrossLeft(toks) ==
    TermBranches(SubSeq(toks, 1, (CHOOSE k \in 2..(Len(toks) - 1) : CrossAt(toks, k)) - 1))

CrossRight(toks) ==
    TermBranches(SubSeq(toks, (CHOOSE k \in 2..(Len(toks) - 1) : CrossAt(toks, k)) + 1, Len(toks)))

(***************************************************************************)
(* Properties.                                                             *)
(***************************************************************************)

\* C1: a mapper built from one selector string S without idx, over N
\* pairwise distinct identifiers, answers get(S) without error with the
\* positions 0..N-1 in order.
C1_RoundTrip ==
    (/\ last.op = "get"
     /\ hist.selectors.t = "str" /\ hist.selectors.v = last.sel
     /\ hist.idx.t = "NoneType"
     /\ DistinctRows)
    => /\ last.err = ""
       /\ last.positions = [i \in 1..Len(portmap.index.rows) |-> i - 1]

\* C2: get(Q) right after a successful set(Q, v) with a scalar v returns as
\* many values as the table has identifiers matched by Q, each equal to v.
C2_SetThenGet ==
    (last.op = "get" /\ hist.written.t = "int")
    => /\ last.err = ""
       /\ Len(last.result) = Cardinality(MatchedRows(last.sel))
       /\ \A i \in 1..Len(last.result) : last.result[i] = hist.written.v

C2_Witness ==
    /\ last.op = "get" /\ last.sel = "/foo/*[0:2]"
    /\ hist.selectors = PyStr("/foo/bar[0:2],/foo/baz[0:2]")
    /\ hist.written = PyInt(1)
    /\ last.result = <<1, 1, 1, 1>>

\* C3: no PortMapper is ever produced whose table holds an identifier twice.
C3_NoDuplicateKey == made => DistinctRows

\* C4: construction from a selector with a wildcard or an interval without
\* upper bound fails, and the same kind of selector is accepted by get
\* whenever none of its branches is deeper than the table.
C4_AmbiguousSelectors ==
    /\ (/\ last.op = "__init__"
        /\ IF last.sel.t = "str" THEN Ambiguous(last.sel.v)
           ELSE \E k \in 1..Len(last.sel.v) : Ambiguous(last.sel.v[k]))
       => (last.err # "" /\ ~made)
    /\ (last.op = "get" /\ Ambiguous(last.sel) /\ Admissible(last.sel))
       => last.err = ""

\* C5: construction fails with LengthMismatch whenever the number of
\* resolved identifiers differs from the buffer length (no idx) or from the
\* length of idx; when it succeeds the i-th identifier is bound to position
\* i (no idx) or to the i-th element of idx.
C5_ConstructLengths ==
    last.op = "__init__" =>
        LET ids == BuildIndex(last.sel)
            expected == IF last.arg.t = "NoneType" THEN Len(last.buf) ELSE Len(last.arg.v)
        IN /\ (ids.err = "" /\ Len(ids.v.rows) # expected)
              => (last.err = LengthMismatch /\ ~made)
           /\ last.err = ""
              => /\ made
                 /\ portmap.index = ids.v
                 /\ Len(portmap.values) = Len(ids.v.rows)
                 /\ \A i \in 1..Len(ids.v.rows) :
                       portmap.values[i] =
                           IF last.arg.t = "NoneType" THEN i - 1 ELSE last.arg.v[i]

C5_Witness ==
    /\ last.op = "__init__" /\ last.arg.t = "list" /\ Len(last.arg.v) = 3
    /\ last.sel = PyStr("/foo[0:2]")
    /\ last.err = LengthMismatch

\* C6: a successful get returns the positions of the rows the selector
\* matches in the order of the table, each row once, whatever the order of
\* the branches and set elements of the selector, and the values stored there.
C6_TableOrder ==
    (last.op = "get" /\ last.err = "")
    => LET rows == Ascending(MatchedRows(last.sel))
       IN /\ last.positions = [k \in 1..Len(rows) |-> portmap.values[rows[k]]]
          /\ last.result = [k \in 1..Len(rows) |-> data[portmap.values[rows[k]] + 1]]

C6_Witness ==
    /\ last.op = "get" /\ last.sel = "/foo/baz[0],/foo/bar[0]"
    /\ hist.selectors = PyStr("/foo/bar[0:2],/foo/baz[0:2]")
    /\ hist.idx.t = "NoneType"
    /\ last.positions = <<0, 2>>

\* C7: get with a selector that parses, is no deeper than the table and
\* matches no row returns the empty sequence without error.
C7_EmptyMatch ==
    (last.op = "get" /\ Admissible(last.sel) /\ MatchedRows(last.sel) = {})
    => (last.err = "" /\ last.result = <<>>)

\* C8 as stated: set succeeds only for a scalar or an array as long as the
\* match count, and fails with LengthMismatch for an array of any other length.
C8_ExactLength ==
    (last.op = "set" /\ select(portmap, last.sel, PyNone, PyNone).err = "")
    => LET n == Len(select(portmap, last.sel, PyNone, PyNone).v.values)
       IN /\ last.err = "" => (last.arg.t = "int" \/ Len(last.arg.v) = n)
          /\ (last.arg.t = "list" /\ Len(last.arg.v) # n) => last.err = LengthMismatch

\* C8 amended: set succeeds only for a scalar, an array of one element or an
\* array as long as the match count, and fails with LengthMismatch for an
\* array of any other length.
C8_Broadcast ==
    (last.op = "set" /\ select(portmap, last.sel, PyNone, PyNone).err = "")
    => LET n == Len(select(portmap, last.sel, PyNone, PyNone).v.values)
       IN /\ last.err = "" => (last.arg.t = "int" \/ Len(last.arg.v) \in {1, n})
          /\ (last.arg.t = "list" /\ Len(last.arg.v) \notin {1, n})
             => last.err = LengthMismatch

C8_Witness ==
    /\ last.op = "set" /\ last.sel = "/foo/*[0:2]"
    /\ hist.selectors = PyStr("/foo/bar[0:2],/foo/baz[0:2]")
    /\ last.arg.t = "list" /\ Len(last.arg.v) = 3
    /\ last.err = LengthMismatch

\* C9: '.+' between two operands yields the position-wise concatenation of
\* the operands' identifiers, as many branches as each operand has
\* identifiers; '/[bar,baz].+/[qux,mof].+/[0,0]' yields (bar,qux,0),(baz,mof,0).
C9_ZipPairs ==
    /\ (last.op = "parse" /\ last.err = "" /\ IsZip(last.sel))
       => /\ Len(last.result) = Len(ZipLeft(last.sel))
          /\ Len(last.result) = Len(ZipRight(last.sel))
          /\ \A i \in 1..Len(last.result) :
                last.result[i] = ZipLeft(last.sel)[i] \o ZipRight(last.sel)[i]
    /\ (last.op = "parse" /\ last.sel = tokenize("/[bar,baz].+/[qux,mof].+/[0,0]"))
       => /\ last.err = ""
          /\ last.result = << <<PyStr("bar"), PyStr("qux"), PyInt(0)>>,
                              <<PyStr("baz"), PyStr("mof"), PyInt(0)>> >>

C9_Witness ==
    /\ last.op = "parse" /\ last.sel = tokenize("/[foo,bar][0:2].+/[0:2][1,0]")
    /\ Len(last.result) = 4
    /\ last.result[2] = <<PyStr("foo"), PyInt(1), PyInt(0), PyInt(0)>>

\* C10: '.+' between operands with different numbers of identifiers fails
\* with the zip mismatch error and returns no selector.
C10_ZipMismatchFails ==
    (last.op = "parse" /\ IsZip(last.sel)
        /\ Len(ZipLeft(last.sel)) # Len(ZipRight(last.sel)))
    => (last.err = ZipMismatch /\ last.result = <<>>)

C10_Witness ==
    /\ last.op = "parse" /\ last.sel = tokenize("/[foo,bar].+/[0:3]")
    /\ last.err = ZipMismatch

\* C11: '+' between two terms yields one branch a ++ b for every branch a of
\* the left term and every branch b of the right term, the left branch
\* varying slowest; '(/foo,/bar)+/baz' yields (foo,baz),(bar,baz), and
\* '/foo+/bar' parses to what '/foo/bar' parses to.
C11_CrossProduct ==
    /\ (last.op = "parse" /\ IsCross(last.sel))
       => LET L == CrossLeft(last.sel)
              R == CrossRight(last.sel)
          IN /\ last.err = ""
             /\ Len(last.result) = Len(L) * Len(R)
             /\ \A i \in 1..Len(L) : \A j \in 1..Len(R) :
                   last.result[(i - 1) * Len(R) + j] = L[i] \o R[j]
    /\ (last.op = "parse" /\ last.sel = tokenize("(/foo,/bar)+/baz"))
       => /\ last.err = ""
          /\ last.result = << <<PyStr("foo"), PyStr("baz")>>, <<PyStr("bar"), PyStr("baz")>> >>
    /\ (last.op = "parse" /\ last.sel = tokenize("/foo+/bar"))
       => /\ last.err = ""
          /\ last.result = lr_parse(<<>>, tokenize("/foo/bar")).v

C11_Witness ==
    /\ last.op = "parse" /\ last.sel = tokenize("(/foo,/bar)+(/baz,/qux)")
    /\ Len(last.result) = 4
    /\ last.result[2] = <<PyStr("foo"), PyStr("qux")>>
    /\ last.result[3] = <<PyStr("bar"), PyStr("baz")>>

\* the rows of the table whose position the last call returned
SelectedRows == {i \in 1..Len(portmap.index.rows) :
                    \E k \in 1..Len(last.positions) : last.positions[k] = portmap.values[i]}

\* C12: an interval level [lo:hi] of a one-branch selector selects a row only
\* if the row's label there is an integer with lo <= label < hi, lo being 0
\* when omitted and hi unbounded when omitted, and every row all of whose
\* levels are accepted is selected; on the table '/foo/mof[0:3]' the
\* selectors '/foo/mof[1:]', '/foo/mof[:2]', '/foo/mof[:]' select the elements
\* 1,2 and 0,1 and 0,1,2.
C12_HalfOpen ==
    /\ (last.op = "get" /\ last.err = "" /\ Len(parse(last.sel).v) = 1)
       => LET branch == parse(last.sel).v[1]
          IN \A i \in 1..Len(portmap.index.rows) :
                LET row == portmap.index.rows[i]
                IN /\ i \in SelectedRows
                      => \A j \in 1..Len(branch) :
                            branch[j].t = "tuple"
                            => /\ row[j].t = "int"
                               /\ branch[j].v[1] <= row[j].v
                               /\ branch[j].v[2].t = "int" => row[j].v < branch[j].v[2].v
                   /\ BranchMatches(branch, row) => i \in SelectedRows
    /\ (last.op = "get" /\ hist.selectors = PyStr("/foo/mof[0:3]") /\ hist.idx.t = "NoneType")
       => /\ last.sel = "/foo/mof[1:]" => (last.err = "" /\ last.positions = <<1, 2>>)
          /\ last.sel = "/foo/mof[:2]" => (last.err = "" /\ last.positions = <<0, 1>>)
          /\ last.sel = "/foo/mof[:]" => (last.err = "" /\ last.positions = <<0, 1, 2>>)

C12_Witness ==
    /\ last.op = "get" /\ last.sel = "/foo/mof[:2]"
    /\ hist.selectors = PyStr("/foo/mof[0:3]") /\ hist.idx.t = "NoneType"
    /\ last.positions = <<0, 1>>
    /\ portmap.index.rows[3] = <<PyStr("foo"), PyStr("mof"), PyInt(2)>>

\* C13: get_tuples(selector, start, stop) returns the rows for which some
\* branch of the selector has every level matcher accept the row's label at
\* start + i (a wildcard accepts any label, a literal an equal one, a set
\* one of its elements, an interval an integer with lo <= label < hi), and
\* no other row.
C13_Membership ==
    (last.op = "get_tuples" /\ last.err = "")
    => LET lo == IF last.arg.v[1].t = "NoneType" THEN 0 ELSE last.arg.v[1].v
           branches == parse(last.sel).v
           Matches(row) ==
               \E b \in 1..Len(branches) :
                   \A i \in 1..Len(branches[b]) :
                       /\ lo + i <= Len(row)
                       /\ last.arg.v[2].t = "int" => lo + i <= last.arg.v[2].v
                       /\ Accepts(branches[b][i], row[lo + i])
       IN last.result = SelectSeq(portmap.index.rows, Matches)

C13_Witness ==
    /\ last.op = "get_tuples" /\ last.sel = "/bar[0:2]"
    /\ last.arg = PyList(<<PyInt(1), PyNone>>)
    /\ hist.selectors = PyStr("/foo/bar[0:2],/foo/baz[0:2]")
    /\ last.result = << <<PyStr("foo"), PyStr("bar"), PyInt(0)>>,
                        <<PyStr("foo"), PyStr("bar"), PyInt(1)>> >>

\* the first n labels of a row
Prefix(row, n) == SubSeq(row, 1, IF n < Len(row) THEN n ELSE Len(row))

\* C14: when every branch of the selector has fewer levels than the table,
\* get selects exactly the rows whose leading labels some branch accepts,
\* so two rows with the same leading labels are selected together whatever
\* their deeper labels are; get('/foo') on a three-level table returns every
\* row whose first label is foo.
C14_PrefixMatch ==
    /\ (/\ last.op = "get" /\ last.err = ""
        /\ \A b \in 1..Len(parse(last.sel).v) :
              Len(parse(last.sel).v[b]) < portmap.index.nlevels)
       => LET branches == parse(last.sel).v
              rows == portmap.index.rows
          IN /\ \A i \in 1..Len(rows) :
                   i \in SelectedRows
                   <=> \E b \in 1..Len(branches) :
                          \A j \in 1..Len(branches[b]) : Accepts(branches[b][j], rows[i][j])
             /\ \A i, k \in 1..Len(rows) :
                   Prefix(rows[i], max_levels(branches)) = Prefix(rows[k], max_levels(branches))
                   => (i \in SelectedRows <=> k \in SelectedRows)
    /\ (/\ last.op = "get" /\ last.sel = "/foo"
        /\ portmap.index.nlevels = 3)
       => /\ last.err = ""
          /\ SelectedRows = {i \in 1..Len(portmap.index.rows) :
                                 portmap.index.rows[i][1] = PyStr("foo")}

C14_Witness ==
    /\ last.op = "get" /\ last.sel = "/foo"
    /\ hist.selectors = PyStr("/foo/bar[0:2],/foo/baz[0:2]") /\ hist.idx.t = "NoneType"
    /\ last.positions = <<0, 1, 2, 3>>

\* the literal elements a level of a branch stands for, in order
LevelElems(m) ==
    CASE m.t \in {"int", "str"} -> <<m>>
      [] m.t = "list" -> m.v
      [] m.t = "tuple" -> [k \in 1..(m.v[2].v - m.v[1]) |-> PyInt(m.v[1] + k - 1)]

RECURSIVE BranchCount(_)
\* the number of identifiers of a branch
BranchCount(branch) ==
    IF branch = <<>> THEN 1 ELSE Len(LevelElems(Head(branch))) * BranchCount(Tail(branch))

\* the identifiers of a branch, the last level varying fastest
BranchIds(branch) ==
    [n \in 1..BranchCount(branch) |->
        [j \in 1..Len(branch) |->
            LET E == LevelElems(branch[j])
            IN E[(((n - 1) \div BranchCount(SubSeq(branch, j + 1, Len(branch)))) % Len(E)) + 1]]]

\* the branches of the selectors argument of the constructor, in call order
AllBranches(selectors) ==
    IF selectors.t = "str" THEN parse(selectors.v).v
    ELSE Flatten([k \in 1..Len(selectors.v) |-> parse(selectors.v[k]).v])

\* all branches have the same number of levels
EqualDepth(branches) == \A a, b \in 1..Len(branches) : Len(branches[a]) = Len(branches[b])

\* C15: a table built from selectors whose branches have equal depth lists
\* the identifiers selector string by selector string in call order, branch
\* by branch in the selector's order, and inside a branch in the order of
\* the cartesian product of its levels' elements (an interval ascending, a
\* set as written), the last level varying fastest.
C15_BuilderOrder ==
    (last.op = "__init__" /\ last.err = "" /\ EqualDepth(AllBranches(last.sel)))
    => portmap.index.rows =
           Flatten([b \in 1..Len(AllBranches(last.sel)) |->
                       BranchIds(AllBranches(last.sel)[b])])

C15_Witness ==
    /\ last.op = "__init__" /\ last.err = ""
    /\ last.sel = PyList(<<"/foo[0:2]", "/bar[0:2]">>)
    /\ portmap.index.rows = << <<PyStr("foo"), PyInt(0)>>, <<PyStr("foo"), PyInt(1)>>,
                               <<PyStr("bar"), PyInt(0)>>, <<PyStr("bar"), PyInt(1)>> >>

\* C16: construction from selectors whose branches do not all have the same
\* number of levels fails and produces no mapper, whether the branches are
\* in one selector string or in different strings of one list.
C16_UnequalDepthFails ==
    (last.op = "__init__" /\ ~EqualDepth(AllBranches(last.sel)))
    => (last.err # "" /\ ~made)

\* C17: get with a selector that parses is rejected for its depth if and
\* only if the longest branch of the selector has more levels than the
\* table, whatever the number of branches and the rows of the table.
C17_DepthCheck ==
    (last.op = "get" /\ parse(last.sel).err = "")
    => (last.err # "" <=> max_levels(parse(last.sel).v) > portmap.index.nlevels)

\* what an operator between two terms denotes
Combine(op, x, y) ==
    IF op = "PLUS"
    THEN LET L == TermBranches(x)
             R == TermBranches(y)
         IN [n \in 1..(Len(L) * Len(R)) |->
                L[((n - 1) \div Len(R)) + 1] \o R[((n - 1) % Len(R)) + 1]]
    ELSE [n \in 1..Len(OperandIds(x)) |-> OperandIds(x)[n] \o OperandIds(y)[n]]

\* x and y can be combined by op
Combinable(op, x, y) ==
    IF op = "PLUS" THEN IsTerm(x) /\ IsTerm(y)
    ELSE /\ IsOperand(x) /\ IsOperand(y)
         /\ Len(OperandIds(x)) = Len(OperandIds(y))

\* the stream is 'A op B , C' with the operator at k and the comma at c
OpThenUnion(toks, k, c) ==
    /\ toks[k].type \in {"PLUS", "DOTPLUS"} /\ toks[c].type = "COMMA"
    /\ Combinable(toks[k].type, SubSeq(toks, 1, k - 1), SubSeq(toks, k + 1, c - 1))
    /\ IsTerm(SubSeq(toks, c + 1, Len(toks)))

\* the stream is 'A , B op C' with the comma at c and the operator at k
UnionThenOp(toks, c, k) ==
    /\ toks[c].type = "COMMA" /\ toks[k].type \in {"PLUS", "DOTPLUS"}
    /\ IsTerm(SubSeq(toks, 1, c - 1))
    /\ Combinable(toks[k].type, SubSeq(toks, c + 1, k - 1), SubSeq(toks, k + 1, Len(toks)))

\* C18: 'A op B , C' parses to the branches of (A op B) followed by those of
\* C, and 'A , B op C' to the branches of A followed by those of (B op C),
\* for op either '+' or '.+' and A, B, C terms.
C18_Precedence ==
    last.op = "parse" =>
        \A k, c \in 2..(Len(last.sel) - 1) :
            /\ (k + 1 < c /\ OpThenUnion(last.sel, k, c))
               => /\ last.err = ""
                  /\ last.result =
                        Combine(last.sel[k].type, SubSeq(last.sel, 1, k - 1),
                                SubSeq(last.sel, k + 1, c - 1))
                        \o TermBranches(SubSeq(last.sel, c + 1, Len(last.sel)))
            /\ (c + 1 < k /\ UnionThenOp(last.sel, c, k))
               => /\ last.err = ""
                  /\ last.result =
                        TermBranches(SubSeq(last.sel, 1, c - 1))
                        \o Combine(last.sel[k].type, SubSeq(last.sel, c + 1, k - 1),
                                   SubSeq(last.sel, k + 1, Len(last.sel)))

(***************************************************************************)
(* C19: Manager.connect passes the pattern to the modules and updates the  *)
(* routing table only if the pattern's gpot and spike mappers for int_0    *)
(* and int_1 equal those of m_0 and m_1; if one of the four comparisons    *)
(* fails, connect fails and neither module's patterns nor the routing      *)
(* table are modified.                                                     *)
(***************************************************************************)
\* the four comparisons for the arguments of a call of connect
FourEqual(c) ==
    LET m_0 == c.sel[1]  m_1 == c.sel[2]  int_0 == c.sel[3]  int_1 == c.sel[4]
        pat == c.arg.v
    IN /\ {int_0, int_1} \subseteq {0, 1}
       /\ equals(pat.pm.gpot[int_0 + 1], mod[m_0].pm.gpot)
       /\ equals(pat.pm.spike[int_0 + 1], mod[m_0].pm.spike)
       /\ equals(pat.pm.gpot[int_1 + 1], mod[m_1].pm.gpot)
       /\ equals(pat.pm.spike[int_1 + 1], mod[m_1].pm.spike)

PatternsOf(M) == [id \in DOMAIN M |-> <<M[id].patterns, M[id].pat_ints>>]

C19_ConnectPrecondition ==
    [][last'.op = "connect" =>
         /\ (PatternsOf(mod') # PatternsOf(mod) \/ man'.routing_table # man.routing_table)
                => FourEqual(last')
         /\ last'.err = ""
                => (FourEqual(last')
                    /\ mod'[last'.sel[1]].patterns[last'.sel[2]] = last'.arg.v
                    /\ mod'[last'.sel[2]].patterns[last'.sel[1]] = last'.arg.v)
         /\ ~FourEqual(last')
                => (last'.err # "" /\ PatternsOf(mod') = PatternsOf(mod)
                    /\ man'.routing_table = man.routing_table)]_vars

\* a pattern whose spike mapper for int_1 alone differs from the module's is
\* refused after another pattern has been connected
C19_Witness ==
    /\ last.op = "connect" /\ last.err = UnequalMappers
    /\ man.routing_table # {}
    /\ equals(last.arg.v.pm.gpot[last.sel[3] + 1], mod[last.sel[1]].pm.gpot)
    /\ equals(last.arg.v.pm.spike[last.sel[3] + 1], mod[last.sel[1]].pm.spike)
    /\ equals(last.arg.v.pm.gpot[last.sel[4] + 1], mod[last.sel[2]].pm.gpot)
    /\ ~equals(last.arg.v.pm.spike[last.sel[4] + 1], mod[last.sel[2]].pm.spike)

(***************************************************************************)
(* C20: in a module that has reached its step loop, the positions kept in  *)
(* _in_port_dict_ids for two distinct sources are disjoint, for each port  *)
(* type: connections that would make two sources write to one port are     *)
(* refused when the modules are connected.                                 *)
(***************************************************************************)
\* the positions of one type a running module writes for a source
DestPositions(md, type, s) == Range(md._in_port_dict_ids[type][s])

PhaseStep(id, pc) == proc[id].pc = pc /\ proc'[id].pc # pc

\* the sources of a module whose queue holds a payload
Pending(md) == {s \in Range(md._in_ids) : md._in_data[s] # <<>>}

\* array a holds the values g at positions ps
HoldsAt(a, ps, g) == \A k \in 1..Len(ps) : a[ps[k] + 1] = g[k]

\* array a is 1 at the positions of ps that are in idx and 0 at its others
OnesExactlyAt(a, ps, idx) ==
    \A k \in 1..Len(ps) : a[ps[k] + 1] = IF ps[k] \in Range(idx) THEN 1 ELSE 0

C21_InputEffect ==
    [][\A id \in RunIds : PhaseStep(id, "get") =>
          \A s \in Pending(mod[id]) :
              /\ HoldsAt(mod'[id].pm.gpot.data, mod[id]._in_port_dict_ids.gpot[s],
                         Head(mod[id]._in_data[s])[1])
              /\ OnesExactlyAt(mod'[id].pm.spike.data, mod[id]._in_port_dict_ids.spike[s],
                               Head(mod[id]._in_data[s])[2])]_vars

\* after an input phase of a later step, the second payload of m2 (value 2,
\* spike at position 1) has replaced the first (value 1, spike at position 0)
C21_Witness ==
    /\ last.op = "_get_in_data" /\ proc["m1"].pc = "step" /\ proc["m1"].curr_steps = 2
    /\ mod["m1"]._in_data["m2"] = <<>>
    /\ mod["m1"].pm.gpot.data[1] = 2
    /\ mod["m1"].pm.gpot.data[2] = 3
    /\ mod["m1"].pm.spike.data[1] = 0 /\ mod["m1"].pm.spike.data[2] = 1

(***************************************************************************)
(* C22: after _put_out_data the staged list holds one entry per            *)
(* destination, in the order of _out_ids and whatever was staged before:   *)
(* the destination's id, the gpot values at the positions wired to it, and *)
(* the destination's positions of the spike ports wired to it whose value  *)
(* is not zero.                                                            *)
(***************************************************************************)
\* the position of a port in a mapper
PositionOf(pm, port) ==
    pm.portmap.values[CHOOSE i \in 1..Len(pm.portmap.index.rows) :
                          pm.portmap.index.rows[i] = port]

\* the positions in the destination dst of the spikes md has to tell it of:
\* one for each connection from a port of md that holds a non-zero value
SpikesFor(M, md, dst) ==
    {PositionOf(M[dst].pm.spike, c.to_port) :
        c \in {x \in md.patterns[dst].conn :
                  /\ x.type = "spike"
                  /\ x.from_int = md.pat_ints[dst][1] /\ x.to_int = md.pat_ints[dst][2]
                  /\ md.pm.spike.data[PositionOf(md.pm.spike, x.from_port) + 1] # 0}}

\* the staged entry e is the one for dst
StagedFor(M, md, dst, e) ==
    /\ e[1] = dst
    /\ e[2][1] = [k \in 1..Len(md._out_port_dict_ids.gpot[dst]) |->
                     md.pm.gpot.data[md._out_port_dict_ids.gpot[dst][k] + 1]]
    /\ Range(e[2][2]) = SpikesFor(M, md, dst)
    /\ Len(e[2][2]) = Cardinality(SpikesFor(M, md, dst))

C22_OutputStaging ==
    [][\A id \in RunIds : PhaseStep(id, "put") =>
          /\ Len(mod'[id]._out_data) = Len(mod[id]._out_ids)
          /\ \A k \in 1..Len(mod[id]._out_ids) :
                 StagedFor(mod, mod[id], mod[id]._out_ids[k], mod'[id]._out_data[k])
          /\ mod'[id].pm = mod[id].pm]_vars

\* in a later step m1 stages its gpot value and its spike for m2 and the
\* spike alone for m3, while a spike received from m2 is not staged
C22_Witness ==
    /\ last.op = "_put_out_data" /\ proc["m1"].pc = "sync" /\ proc["m1"].curr_steps >= 1
    /\ mod["m1"].pm.spike.data[1] = 1
    /\ mod["m1"]._out_data = << <<"m2", << <<5>>, <<2>> >> >>, <<"m3", << <<>>, <<2>> >> >> >>

(***************************************************************************)
(* C23: in every step of Module.run the phases run in the order            *)
(* _get_in_data, run_step, _put_out_data, _sync, and the step bound and    *)
(* the stop signal are looked at only between steps: the loop is left only *)
(* at its head or after the _sync of a step, never between two phases.     *)
(***************************************************************************)
\* the operation op of the loop is carried out
Does(op) == last' # last /\ last'.op = op

C23_StepStructure ==
    [][/\ Does("_get_in_data") => last.op = "while"
       /\ Does("run_step") => last.op = "_get_in_data"
       /\ Does("_put_out_data") => last.op = "run_step"
       /\ Does("_sync") => last.op = "_put_out_data"
       /\ Does("end") => last.op = "_sync"
       /\ Does("while") => last.op \in {"run", "end"}
       /\ Does("post_run") =>
              \/ last.op = "while" /\ proc["m1"].curr_steps >= proc["m1"].max_steps
              \/ last.op = "end" /\ ~mod["m1"].running
       /\ \A id \in RunIds :
              mod'[id].running # mod[id].running => proc'[id] = proc[id] /\ last' = last]_vars

\* the stop signal came in the second step, whose four phases were all
\* carried out before the loop looks at it
C23_Witness ==
    /\ last.op = "_sync" /\ proc["m1"].pc = "end" /\ proc["m1"].curr_steps = 1
    /\ ~mod["m1"].running
    /\ mod["m1"]._out_data # <<>>

(***************************************************************************)
(* C24: with debug set, a phase that fails ends run: the exception leaves  *)
(* it and nothing of the loop is carried out afterwards.  Without debug    *)
(* the failure is caught and logged and the loop goes on with the phase    *)
(* that follows, not with the failed one again; the step is counted at its *)
(* end and what the failed phase wrote before it failed stays written.     *)
(***************************************************************************)
\* the phase of the loop that follows op
FollowedBy(op) ==
    CASE op = "_get_in_data" -> "step"
      [] op = "run_step" -> "put"
      [] op = "_put_out_data" -> "sync"
      [] op = "_sync" -> "end"

PhaseOps == {"_get_in_data", "run_step", "_put_out_data", "_sync"}

\* the output ports of md hold what the failing run_step writes
StepWritten(md) ==
    /\ \A p \in DOMAIN md._out_port_dict_ids.gpot :
           \A k \in 1..Len(md._out_port_dict_ids.gpot[p]) :
               md.pm.gpot.data[md._out_port_dict_ids.gpot[p][k] + 1] = 5
    /\ \A p \in DOMAIN md._out_port_dict_ids.spike :
           \A k \in 1..Len(md._out_port_dict_ids.spike[p]) :
               md.pm.spike.data[md._out_port_dict_ids.spike[p][k] + 1] = 1

C24_FailurePolicy ==
    [][\A id \in RunIds :
          /\ proc[id].pc = "raised" => proc'[id] = proc[id] /\ mod'[id] = mod[id] /\ last' = last
          /\ \A op \in PhaseOps :
                 Does(op) /\ last'.err # "" =>
                     /\ mod[id].debug =>
                            proc'[id].pc = "raised" /\ proc'[id].exc = last'.err
                     /\ ~mod[id].debug =>
                            /\ proc'[id].pc = FollowedBy(op)
                            /\ proc'[id].logged = proc[id].logged + 1
                            /\ proc'[id].curr_steps = proc[id].curr_steps
                     /\ last'.err = StepError => StepWritten(mod'[id])
          /\ Does("end") /\ mod[id].running =>
                 proc'[id].curr_steps = proc[id].curr_steps + 1 /\ proc'[id].pc = "while"
          /\ ~mod[id].debug => proc'[id].pc # "raised"]_vars

\* without debug, run_step fails in a later step after an earlier failure
\* was logged, and the output phase is next with the writes in place
C24_Witness ==
    /\ ~mod["m1"].debug
    /\ last.op = "run_step" /\ last.err = StepError
    /\ proc["m1"].pc = "put" /\ proc["m1"].curr_steps >= 1 /\ proc["m1"].logged = 2
    /\ StepWritten(mod["m1"])

(***************************************************************************)
(* C25: in a step _get_in_data takes from the queue of each source at most *)
(* one payload, the oldest: a queue of k > 0 payloads is left with the     *)
(* k - 1 newer ones in their order, the payload applied is the one that    *)
(* was at the head, and an empty queue stays empty.                        *)
(***************************************************************************)
C25_Fifo ==
    [][\A id \in RunIds : PhaseStep(id, "get") =>
          \A s \in DOMAIN mod[id]._in_data :
              IF mod[id]._in_data[s] = <<>>
              THEN mod'[id]._in_data[s] = <<>>
              ELSE /\ Len(mod'[id]._in_data[s]) = Len(mod[id]._in_data[s]) - 1
                   /\ \A k \in 1..Len(mod'[id]._in_data[s]) :
                          mod'[id]._in_data[s][k] = mod[id]._in_data[s][k + 1]
                   /\ HoldsAt(mod'[id].pm.gpot.data, mod[id]._in_port_dict_ids.gpot[s],
                              mod[id]._in_data[s][1][1])]_vars

\* of two payloads of m2 the older one, with gpot value 1 and a spike at 0,
\* is applied and the newer one, with gpot value 2 and a spike at 1, is left
C25_Witness ==
    /\ last.op = "_get_in_data" /\ proc["m1"].pc = "step"
    /\ mod["m1"]._in_data["m2"] = << << <<2>>, <<1>> >> >>
    /\ mod["m1"].pm.gpot.data[1] = 1
    /\ mod["m1"].pm.spike.data[1] = 1 /\ mod["m1"].pm.spike.data[2] = 0

(***************************************************************************)
(* C26: when the queue of a source is empty in a step, _get_in_data raises *)
(* nothing, still applies the payloads of the other sources, and leaves    *)
(* the gpot and spike values at the positions of that source as they were. *)
(***************************************************************************)
\* the arrays a and b agree at the positions ps
SameAt(a, b, ps) == \A k \in 1..Len(ps) : a[ps[k] + 1] = b[ps[k] + 1]

C26_EmptyQueue ==
    [][\A id \in RunIds : PhaseStep(id, "get") =>
          \A s \in DOMAIN mod[id]._in_data :
              mod[id]._in_data[s] = <<>> =>
                  /\ last'.err = "" /\ proc'[id].pc = "step"
                  /\ SameAt(mod'[id].pm.gpot.data, mod[id].pm.gpot.data,
                            mod[id]._in_port_dict_ids.gpot[s])
                  /\ SameAt(mod'[id].pm.spike.data, mod[id].pm.spike.data,
                            mod[id]._in_port_dict_ids.spike[s])
                  /\ \A t \in Pending(mod[id]) :
                         /\ mod'[id]._in_data[t] = Tail(mod[id]._in_data[t])
                         /\ HoldsAt(mod'[id].pm.gpot.data, mod[id]._in_port_dict_ids.gpot[t],
                                    Head(mod[id]._in_data[t])[1])]_vars

\* reached when the queue of m2, the first source, is empty and that of m3
\* holds two payloads: the spike received from m2 in an earlier step is
\* still there, a payload of m3 is applied
C26_Witness ==
    /\ last.op = "_get_in_data" /\ last.err = "" /\ proc["m1"].pc = "step"
    /\ proc["m1"].curr_steps = 2
    /\ mod["m1"]._in_ids[1] = "m2"
    /\ mod["m1"]._in_data["m2"] = <<>> /\ Len(mod["m1"]._in_data["m3"]) = 1
    /\ mod["m1"].pm.gpot.data[1] = 2 /\ mod["m1"].pm.spike.data[2] = 1
    /\ mod["m1"].pm.gpot.data[2] = 3

(***************************************************************************)
(* C27: the input phase writes, for a payload of source S, only at the     *)
(* positions computed for S: the spike indices of a payload are among the  *)
(* spike positions of S, every position of a source holds after the phase  *)
(* what that source's own payload says, or what it held before if that     *)
(* source sent nothing, and the positions of no source, the output ports   *)
(* among them, keep their values.                                          *)
(***************************************************************************)
\* the positions of type tied to the sources ss
TiedTo(md, type, ss) == UNION {Range(md._in_port_dict_ids[type][s]) : s \in ss}

\* a and b agree outside the positions ps
SameOutside(a, b, ps) == \A i \in 1..Len(a) : (i - 1) \notin ps => a[i] = b[i]

C27_WritesOwnPositions ==
    [][\A id \in RunIds : PhaseStep(id, "get") =>
          /\ \A s \in Pending(mod[id]) :
                 /\ Range(Head(mod[id]._in_data[s])[2])
                        \subseteq Range(mod[id]._in_port_dict_ids.spike[s])
                 /\ HoldsAt(mod'[id].pm.gpot.data, mod[id]._in_port_dict_ids.gpot[s],
                            Head(mod[id]._in_data[s])[1])
                 /\ OnesExactlyAt(mod'[id].pm.spike.data, mod[id]._in_port_dict_ids.spike[s],
                                  Head(mod[id]._in_data[s])[2])
          /\ \A type \in PortTypes :
                 SameOutside(mod'[id].pm[type].data, mod[id].pm[type].data,
                             TiedTo(mod[id], type, Pending(mod[id])))]_vars

\* a payload of m3 is applied at its gpot position while the queue of m2 is
\* empty: the values at the positions of m2 and at the output ports, written
\* earlier, are as before
C27_Witness ==
    /\ last.op = "_get_in_data" /\ proc["m1"].pc = "step"
    /\ mod["m1"]._in_data["m2"] = <<>> /\ Len(mod["m1"]._in_data["m3"]) = 1
    /\ mod["m1"].pm.gpot.data = <<1, 3, 5>>
    /\ mod["m1"].pm.spike.data = <<1, 0, 1>>

(***************************************************************************)
(* C28: Module.run starts a step only while fewer than max_steps steps are *)
(* counted, leaves the loop at the end of the first step after which       *)
(* running is False, and comes to an end: when no failure leaves it, with  *)
(* post_run called and 'shutdown' sent to the manager once each; when a    *)
(* failure leaves it, which happens with debug only, with neither.         *)
(***************************************************************************)
Finished(id) == proc[id].pc \in {"done", "raised"}

RunEnds(id) ==
    /\ proc[id].curr_steps <= proc[id].max_steps
    /\ proc[id].pc = "done" => proc[id].posts = 1 /\ proc[id].acks = 1 /\ proc[id].exc = ""
    /\ proc[id].pc = "raised" =>
           mod[id].debug /\ proc[id].exc # "" /\ proc[id].posts = 0 /\ proc[id].acks = 0
    /\ ~Finished(id) => proc[id].posts = 0 /\ proc[id].acks = 0

LoopLeft(id) ==
    /\ Does("_get_in_data") => proc[id].curr_steps < proc[id].max_steps
    /\ Does("while") /\ proc[id].curr_steps >= proc[id].max_steps => proc'[id].pc = "post"
    /\ Does("end") => proc'[id].pc = IF mod[id].running THEN "while" ELSE "post"
    /\ Does("post_run") => proc'[id].pc = "done"
    /\ Finished(id) => proc'[id] = proc[id] /\ last' = last

C28_Termination ==
    /\ [](\A id \in RunIds : RunEnds(id))
    /\ [][\A id \in RunIds : LoopLeft(id)]_vars
    /\ \A id \in RunIds : <>Finished(id)

\* the stop signal ended the run after its second step, one short of the
\* step bound, and the acknowledgement was sent
C28_Witness ==
    /\ proc["m1"].pc = "done" /\ proc["m1"].curr_steps = 1 /\ proc["m1"].max_steps = 3
    /\ ~mod["m1"].running
    /\ proc["m1"].posts = 1 /\ proc["m1"].acks = 1

=============================================================================
